---- MODULE Spec2Model ----
(***************************************************************************)
(* Session, credential store, transports and asset pipeline of             *)
(* vrc-print-upload.                                                       *)
(*                                                                         *)
(*   internal/auth/auth.go      the session client (auth.Client)           *)
(*   internal/config/config.go  Load and the directory of the file         *)
(*   internal/client/client.go  the resilient transport                    *)
(*   internal/upload/upload.go  the asset pipeline and Upload              *)
(*   vrc-print-gui/app.go       the GUI application (App)                  *)
(*                                                                         *)
(* The remote service, the file system and the clock are the environment:  *)
(* every handler draws the server's answer and the file system's faults    *)
(* from small sets.  The specifications share the state:                   *)
(*   Spec           the session client, called directly                    *)
(*   SpecApp        the session client behind the GUI's handlers           *)
(*   SpecConfig     the session client with Load and the directory         *)
(*   SpecTransport  one request through the resilient transport, attempt   *)
(*                  by attempt (SpecTransportFair adds fairness)           *)
(*   SpecUpload     Upload on an uploader built on either transport        *)
(*   SpecImage      prepareImage on source files of every shape            *)
(*   SpecSend       one Upload through the resilient transport, from the   *)
(*                  image to the body of every attempt                     *)
(*   SpecHeader     createAuthHeader on usernames and passwords            *)
(*   SpecConcurrent two calls at once on one session client                *)
(*   SpecSession    the GUI's handlers that make, end and check a session  *)
(*   SpecSave       saveCookiesToFile, one file operation at a time        *)
(*   SpecOnce       one request of the session client and its attempts     *)
(*   SpecSnapshot   client.New and the responses of both clients           *)
(*   SpecGate       the GUI's handlers that open and close the upload      *)
(***************************************************************************)
EXTENDS Integers, Sequences, FiniteSets, Bags, TLC

VARIABLES
    now,            \* the clock, read by time.Now()
    cookies,        \* Client.cookies: cookie name -> cookie
    jar,            \* Client.httpClient.Cookies: the cookies sent with every request
    file,           \* the credential file, config.CookieFile()
    savedSet,       \* history: the cookie set of the last completed save
    uploadService,  \* App.uploadService # nil
    started,        \* App.startup has run
    last,           \* history: the call that returned last
    dir,            \* the directory of the credential file, Config.ConfigDir()
    script,         \* the answers the server gives to the attempts of the call in progress
    attempts,       \* the outcomes of the attempts the call in progress has made
    phase,          \* the resilient transport: "idle", "sending" or "returned"
    source,         \* the image file and options given to the asset pipeline
    imageData,      \* what prepareImage returned for source
    waits,          \* the waits the call in progress has made before its retries
    pending,        \* history: a login asked for a second factor not yet verified
    session,        \* history: a session was granted; the last grant or logout was a logout
    login,          \* the credentials of a login and the header made of them
    form,           \* the options of an upload and the multipart body made of them
    trace,          \* history: the steps of the upload in progress, with their times
    calls,          \* the calls in progress on a shared client, each with its position
    resilient       \* the client built by client.New: its base address, cookies, user agent

vars == <<now, cookies, jar, file, savedSet, uploadService, started, last,
          dir, script, attempts, phase, source, imageData,
          waits, pending, session, login, form, trace, calls, resilient>>

\* The state of the parts an operation of the session client does not touch.
transportVars == <<script, attempts, phase>>
imageVars == <<source, imageData>>
auxVars == <<login, form, trace, calls, resilient>>

----------------------------------------------------------------------------
(* Bounds *)

MaxTime == 3     \* the clock runs from 1 to MaxTime
MaxJar == 3      \* entries of httpClient.Cookies
MaxScript == 5   \* answers the server has ready for the attempts of one request
MaxText == 2     \* characters of a username or a password

----------------------------------------------------------------------------
(* Cookies *)

Cookie(n, v, e) == [Name |-> n, Value |-> v, Expires |-> e]

\* Expires = 0 is the zero time.Time (no expiry); otherwise an instant.
AuthCookies == { Cookie("auth", "", 0), Cookie("auth", "t1", 0), Cookie("auth", "t2", 2) }

SidCookie == Cookie("sid", "s1", 0)

NoCookies == [n \in {} |-> Cookie(n, "", 0)]

\* The Set-Cookie headers of one response, in order.
SetCookieLists ==
    {<<>>} \cup { <<c>> : c \in AuthCookies } \cup
    { <<Cookie("auth", "t1", 0), SidCookie>>,
      <<Cookie("auth", "t1", 0), Cookie("auth", "t2", 2)>> }


----------------------------------------------------------------------------
(* The credential file *)

OwnerOnlyMode == 384      \* 0600
CreateModes == {420, 384} \* 0666 &^ umask, for umask 022 and 077

\* The bytes of the file: a JSON object given by its members, closed when the
\* whole object was written.  An empty or cut-off file is not closed.
NoData == [closed |-> FALSE, members |-> {}]

NoFile == [exists |-> FALSE, mode |-> 0, data |-> NoData]

ZeroTimeText == "0001-01-01T00:00:00Z"

\* time.Time.MarshalJSON: RFC 3339 text of the instant.
FormatTime(t) == IF t = 0 THEN ZeroTimeText ELSE "T+" \o ToString(t)

\* time.Time.UnmarshalJSON.
ParseTime(s) ==
    IF s = ZeroTimeText THEN 0 ELSE CHOOSE t \in 1..(MaxTime + 1) : FormatTime(t) = s

\* An encoding that leaves the expiry out.
EncodeCookiesNoExpires(cs) ==
    [closed |-> TRUE,
     members |-> { [key |-> n, Name |-> cs[n].Name, Value |-> cs[n].Value,
                    Expires |-> ZeroTimeText] : n \in DOMAIN cs }]

\* json.NewEncoder(file).Encode(c.cookies)
EncodeCookies(cs) ==
    [closed |-> TRUE,
     members |-> { [key |-> n, Name |-> cs[n].Name, Value |-> cs[n].Value,
                    Expires |-> FormatTime(cs[n].Expires)] : n \in DOMAIN cs }]

\* json.NewDecoder(file).Decode(&c.cookies), for closed data
DecodeCookies(data) ==
    [n \in { m.key : m \in data.members } |->
        LET m == CHOOSE x \in data.members : x.key = n
        IN  Cookie(m.Name, m.Value, ParseTime(m.Expires))]

----------------------------------------------------------------------------
(* The remote service's answers *)

ZeroBody ==
    [error |-> <<>>, rtfaTop |-> FALSE, user |-> FALSE, rtfaUser |-> FALSE,
     verified |-> FALSE]

\* Bodies of GET /auth/user as AuthResponse reads them: error, the top-level
\* requiresTwoFactorAuth, user and user.requiresTwoFactorAuth.
LoginBodies ==
    { [ZeroBody EXCEPT !.user = TRUE],
      [ZeroBody EXCEPT !.rtfaTop = TRUE],
      [ZeroBody EXCEPT !.user = TRUE, !.rtfaUser = TRUE],
      [ZeroBody EXCEPT !.error = <<"Invalid", "credentials">>],
      [ZeroBody EXCEPT !.error = <<"2FA", "locked">>],
      [ZeroBody EXCEPT !.error = <<"Invalid", "credentials">>, !.rtfaTop = TRUE] }

\* Bodies of the two verify endpoints as TwoFactorAuthResponse reads them.
VerifyBodies ==
    { [ZeroBody EXCEPT !.verified = TRUE],
      [ZeroBody EXCEPT !.error = <<"Invalid", "code">>] }

\* Bodies of GET /auth/user as User reads them.
UserBodies ==
    { [ZeroBody EXCEPT !.user = TRUE],
      [ZeroBody EXCEPT !.user = TRUE, !.rtfaUser = TRUE] }

Http(st, b, sc) ==
    [failed |-> FALSE, errText |-> <<>>, status |-> st, body |-> b, setCookies |-> sc]

\* The transport-level failure of a request: no response, no cookies.
NetFail ==
    [failed |-> TRUE, errText |-> <<"connection", "refused">>, status |-> 0,
     body |-> ZeroBody, setCookies |-> <<>>]

\* What the service may answer to a request: a failure of the transport, a
\* 200 with one of the bodies, or an error status.
Answers(bodies, lists, errorBody) ==
    {NetFail} \cup
    { Http(200, b, sc) : b \in bodies, sc \in lists } \cup
    { Http(st, errorBody, sc) : st \in {401, 500}, sc \in { <<>>, <<Cookie("auth", "t1", 0)>> } }

LoginResponses ==
    Answers(LoginBodies, SetCookieLists, [ZeroBody EXCEPT !.error = <<"Invalid", "credentials">>])

VerifyResponses ==
    Answers(VerifyBodies, SetCookieLists, [ZeroBody EXCEPT !.error = <<"Invalid", "code">>])

\* The identity lookup sets no cookie, or rotates the auth cookie.
UserResponses ==
    Answers(UserBodies, { <<>>, <<Cookie("auth", "t2", 2)>> },
            [ZeroBody EXCEPT !.error = <<"Unauthorized">>])

\* resp.Result(): resty decodes the body into the SetResult object for a 2xx
\* status only; for any other status the object keeps its zero value.
Result(resp) == IF resp.status >= 200 /\ resp.status <= 299 THEN resp.body ELSE ZeroBody

----------------------------------------------------------------------------
(* config.Load and the directory of the credential file *)

OwnerOnlyDir == 448       \* 0700, the mode Load passes to os.MkdirAll

\* mode &^ umask, bit by bit.
RECURSIVE AndNot(_, _)
AndNot(m, u) ==
    IF m = 0 THEN 0
    ELSE (IF m % 2 = 1 /\ u % 2 = 0 THEN 1 ELSE 0) + 2 * AndNot(m \div 2, u \div 2)

NoDir == [exists |-> FALSE, mode |-> 0]
Dir(m) == [exists |-> TRUE, mode |-> m]

\* What one call of Load reads from its environment: whether the home
\* directory is known, whether creating the directory fails, the umask, and
\* whether the configuration file is unreadable.
\* umask is the process's umask: 022, 077 or 0277.
LoadInputs ==
    [noHome : BOOLEAN, mkdirFails : BOOLEAN, umask : {18, 63, 191}, badConfig : BOOLEAN]

\* A Load that leaves the directory to whoever writes into it.
LoadNoMkdir(d, in) ==
    IF in.noHome THEN [dir |-> d, err |-> <<"failed", "to", "get", "home", "directory">>]
    ELSE IF in.badConfig THEN [dir |-> d, err |-> <<"failed", "to", "read", "config">>]
    ELSE [dir |-> d, err |-> <<>>]

\* config.Load from the directory state d: os.MkdirAll leaves an existing
\* directory as it is and creates a missing one with 0700 &^ umask; reading
\* the configuration file comes after it.
Load(d, in) ==
    LET made == IF d.exists THEN d ELSE Dir(AndNot(OwnerOnlyDir, in.umask))
    IN  IF in.noHome THEN [dir |-> d, err |-> <<"failed", "to", "get", "home", "directory">>]
        ELSE IF ~d.exists /\ in.mkdirFails
        THEN [dir |-> d, err |-> <<"failed", "to", "create", "config", "directory">>]
        ELSE IF in.badConfig THEN [dir |-> made, err |-> <<"failed", "to", "read", "config">>]
        ELSE [dir |-> made, err |-> <<>>]

----------------------------------------------------------------------------
(* The file system's faults *)

IOFaults == {"none", "create", "chmod", "write"}


\* The inputs a save reads: the mode of a new file only when it creates one.
\* os.Create cannot but fail while the directory of the file is absent.
SaveIOs(f) ==
    [fault : IF dir.exists THEN IOFaults ELSE {"create"},
     umode : IF f.exists THEN {420} ELSE CreateModes, deny : {FALSE}]

\* The inputs that opening or removing the file reads.
OpenIOs(f) == [fault : {"none"}, umode : {420}, deny : IF f.exists THEN BOOLEAN ELSE {FALSE}]

NoFault == [fault |-> "none", umode |-> 420, deny |-> FALSE]

----------------------------------------------------------------------------
(* auth.Client.  A client state c is [cookies, jar, file]; every operation  *)
(* returns the new client state with the operation's error (<<>> is nil).  *)

Self == [cookies |-> cookies, jar |-> jar, file |-> file]

\* for _, cookie := range resp.Cookies() { c.cookies[cookie.Name] = cookie }
RECURSIVE MergeCookies(_, _)
MergeCookies(cs, list) ==
    IF list = <<>> THEN cs
    ELSE LET ck == Head(list)
         IN  MergeCookies([n \in DOMAIN cs \cup {ck.Name} |->
                              IF n = ck.Name THEN ck ELSE cs[n]], Tail(list))

\* The slice built from the map: one entry per name.
CookieSlice(cs) == SetToBag({ cs[n] : n \in DOMAIN cs })

\* resty's Client.SetCookies appends the given cookies to Client.Cookies.
SetCookies(j, slice) == j (+) slice

\* The OnAfterResponse hook: merge the response's cookies by name, then hand
\* the whole map to SetCookies.
saveCookies(c, resp) ==
    LET merged == MergeCookies(c.cookies, resp.setCookies)
    IN  [c EXCEPT !.cookies = merged, !.jar = SetCookies(c.jar, CookieSlice(merged))]

\* One request through c.httpClient: the hook runs on every response,
\* whatever its status, and not when the transport fails.
Execute(c, resp) == IF resp.failed THEN c ELSE saveCookies(c, resp)

\* A save without the Chmod.
saveCookiesToFileNoChmod(c, io) ==
    IF io.fault # "none"
    THEN [c |-> c, err |-> <<"open:", "permission", "denied">>, wrote |-> FALSE]
    ELSE [c |-> [c EXCEPT !.file =
                    [exists |-> TRUE,
                     mode   |-> IF c.file.exists THEN c.file.mode ELSE io.umode,
                     data   |-> EncodeCookies(c.cookies)]],
          err |-> <<>>, wrote |-> TRUE]

\* os.Create truncates an existing file and keeps its mode; Chmod follows; the
\* cookies are encoded last.  wrote tells whether the encoding completed.
saveCookiesToFile(c, io) ==
    LET created == [exists |-> TRUE,
                    mode   |-> IF c.file.exists THEN c.file.mode ELSE io.umode,
                    data   |-> NoData]
        chmodded == [created EXCEPT !.mode = OwnerOnlyMode]
    IN  CASE io.fault = "create" ->
                [c |-> c, err |-> <<"open:", "permission", "denied">>, wrote |-> FALSE]
          [] io.fault = "chmod" ->
                [c |-> [c EXCEPT !.file = created],
                 err |-> <<"chmod:", "operation", "not", "permitted">>, wrote |-> FALSE]
          [] io.fault = "write" ->
                [c |-> [c EXCEPT !.file = chmodded],
                 err |-> <<"write:", "no", "space", "left">>, wrote |-> FALSE]
          [] OTHER ->
                [c |-> [c EXCEPT !.file = [chmodded EXCEPT !.data = EncodeCookies(c.cookies)]],
                 err |-> <<>>, wrote |-> TRUE]

\* A missing file is no error; a file that cannot be opened or decoded leaves
\* the map as it is.
loadCookies(c, io) ==
    IF ~c.file.exists THEN [c |-> c, err |-> <<>>]
    ELSE IF io.deny THEN [c |-> c, err |-> <<"open:", "permission", "denied">>]
    ELSE IF ~c.file.data.closed THEN [c |-> c, err |-> <<"unexpected", "EOF">>]
    ELSE LET loaded == DecodeCookies(c.file.data)
             merged == [n \in DOMAIN c.cookies \cup DOMAIN loaded |->
                           IF n \in DOMAIN loaded THEN loaded[n] ELSE c.cookies[n]]
         IN  [c |-> [c EXCEPT !.cookies = merged,
                              !.jar = SetCookies(c.jar, CookieSlice(merged))],
              err |-> <<>>]

\* NewClient: an empty map and a new http client, then loadCookies, whose
\* error is dropped.
NewClient(f, io) ==
    loadCookies([cookies |-> NoCookies, jar |-> EmptyBag, file |-> f], io).c

Err2FARequired == <<"2FA", "required", "-", "use", "VerifyTOTPCode", "or", "VerifyRecoveryCode", "methods">>

\* A Login that writes the file before the response's cookies are merged.
LoginSavesBeforeMerge(c, resp, io) ==
    LET authResp == Result(resp)
        saved == saveCookiesToFile(c, io)
    IN  IF resp.failed \/ authResp.error # <<>> \/ authResp.rtfaTop
           \/ (authResp.user /\ authResp.rtfaUser) \/ saved.err # <<>>
        THEN [c |-> Execute(c, resp), err |-> <<"failed">>, wrote |-> FALSE]
        ELSE [c |-> Execute(saved.c, resp), err |-> <<>>, wrote |-> TRUE]

\* A Login that persists the cookies before it looks at the second factor.
LoginPersistsOnTwoFactor(c, resp, io) ==
    LET c1 == Execute(c, resp)
        authResp == Result(resp)
        saved == saveCookiesToFile(c1, io)
    IN  IF resp.failed \/ authResp.error # <<>> \/ saved.err # <<>>
        THEN [c |-> c1, err |-> <<"failed">>, wrote |-> FALSE]
        ELSE IF authResp.rtfaTop \/ (authResp.user /\ authResp.rtfaUser)
        THEN [c |-> saved.c, err |-> Err2FARequired, wrote |-> TRUE]
        ELSE [c |-> saved.c, err |-> <<>>, wrote |-> TRUE]

Login(c, resp, io) ==
    LET c1 == Execute(c, resp)
        authResp == Result(resp)
        saved == saveCookiesToFile(c1, io)
    IN  IF resp.failed
        THEN [c |-> c1, err |-> <<"authentication", "request", "failed:">> \o resp.errText,
              wrote |-> FALSE]
        ELSE IF authResp.error # <<>>
        THEN [c |-> c1, err |-> <<"authentication", "failed:">> \o authResp.error,
              wrote |-> FALSE]
        ELSE IF authResp.rtfaTop \/ (authResp.user /\ authResp.rtfaUser)
        THEN [c |-> c1, err |-> Err2FARequired, wrote |-> FALSE]
        ELSE IF saved.err # <<>>
        THEN [c |-> saved.c, err |-> <<"failed", "to", "save", "cookies:">> \o saved.err,
              wrote |-> FALSE]
        ELSE [c |-> saved.c, err |-> <<>>, wrote |-> TRUE]

\* A VerifyTOTPCode that writes the file before it sends its request.
VerifyTOTPCodeSavesFirst(c, resp, io) ==
    LET saved == saveCookiesToFile(c, io)
        c1 == Execute(saved.c, resp)
    IN  IF resp.failed
        THEN [c |-> c1, err |-> <<"2FA", "verification", "failed:">> \o resp.errText,
              wrote |-> FALSE]
        ELSE IF ~Result(resp).verified
        THEN [c |-> c1, err |-> <<"2FA", "verification", "failed:", "invalid", "code">>,
              wrote |-> FALSE]
        ELSE IF saved.err # <<>>
        THEN [c |-> c1, err |-> <<"failed", "to", "save", "cookies:">> \o saved.err,
              wrote |-> FALSE]
        ELSE [c |-> c1, err |-> <<>>, wrote |-> TRUE]

\* A VerifyTOTPCode that does not look at the reply's verified field.
VerifyTOTPCodeUnchecked(c, resp, io) ==
    LET c1 == Execute(c, resp)
        saved == saveCookiesToFile(c1, io)
    IN  IF resp.failed \/ saved.err # <<>>
        THEN [c |-> c1, err |-> <<"2FA", "verification", "failed">>, wrote |-> FALSE]
        ELSE [c |-> saved.c, err |-> <<>>, wrote |-> TRUE]

VerifyTOTPCode(c, resp, io) ==
    LET c1 == Execute(c, resp)
        twoFAResp == Result(resp)
        saved == saveCookiesToFile(c1, io)
    IN  IF resp.failed
        THEN [c |-> c1, err |-> <<"2FA", "verification", "failed:">> \o resp.errText,
              wrote |-> FALSE]
        ELSE IF ~twoFAResp.verified
        THEN [c |-> c1, err |-> <<"2FA", "verification", "failed:", "invalid", "code">>,
              wrote |-> FALSE]
        ELSE IF saved.err # <<>>
        THEN [c |-> saved.c, err |-> <<"failed", "to", "save", "cookies:">> \o saved.err,
              wrote |-> FALSE]
        ELSE [c |-> saved.c, err |-> <<>>, wrote |-> TRUE]

VerifyRecoveryCode(c, resp, io) ==
    LET c1 == Execute(c, resp)
        twoFAResp == Result(resp)
        saved == saveCookiesToFile(c1, io)
    IN  IF resp.failed
        THEN [c |-> c1,
              err |-> <<"recovery", "code", "verification", "failed:">> \o resp.errText,
              wrote |-> FALSE]
        ELSE IF ~twoFAResp.verified
        THEN [c |-> c1,
              err |-> <<"recovery", "code", "verification", "failed:", "invalid", "code">>,
              wrote |-> FALSE]
        ELSE IF saved.err # <<>>
        THEN [c |-> saved.c, err |-> <<"failed", "to", "save", "cookies:">> \o saved.err,
              wrote |-> FALSE]
        ELSE [c |-> saved.c, err |-> <<>>, wrote |-> TRUE]

\* An IsAuthenticated that takes a cookie expiring at this instant as expired.
IsAuthenticatedStrict(cs, t) ==
    "auth" \in DOMAIN cs /\ cs["auth"].Value # ""
        /\ (cs["auth"].Expires = 0 \/ cs["auth"].Expires > t)

IsAuthenticated(cs, t) ==
    IF "auth" \notin DOMAIN cs THEN FALSE
    ELSE IF cs["auth"].Value = "" THEN FALSE
    ELSE IF cs["auth"].Expires # 0 /\ cs["auth"].Expires < t THEN FALSE
    ELSE TRUE

GetCurrentUser(c, resp) ==
    LET c1 == Execute(c, resp)
    IN  IF resp.failed THEN [c |-> c1, err |-> resp.errText]
        ELSE IF resp.status # 200
        THEN [c |-> c1, err |-> <<"failed", "to", "get", "user", "info:", ToString(resp.status)>>]
        ELSE [c |-> c1, err |-> <<>>]

\* A Logout that reports the error of removing a file that is not there.
LogoutStrictRemove(c, io) ==
    LET c1 == [c EXCEPT !.cookies = NoCookies]
    IN  IF ~c.file.exists \/ io.deny
        THEN [c |-> c1, err |-> <<"failed", "to", "remove", "cookie", "file">>]
        ELSE [c |-> [c1 EXCEPT !.file = NoFile], err |-> <<>>]

\* os.Remove: a file that is already absent is not an error.
Logout(c, io) ==
    LET c1 == [c EXCEPT !.cookies = NoCookies, !.jar = SetCookies(c.jar, EmptyBag)]
    IN  IF c.file.exists /\ io.deny
        THEN [c |-> c1,
              err |-> <<"failed", "to", "remove", "cookie", "file:", "permission", "denied">>]
        ELSE [c |-> [c1 EXCEPT !.file = NoFile], err |-> <<>>]

----------------------------------------------------------------------------
(* History of the last call *)

NoSaved == [valid |-> FALSE, set |-> NoCookies]

Saved(cs) == [valid |-> TRUE, set |-> cs]

\* op: the call; err: its error (<<>> is nil); value: its boolean result
\* (Success for the App's handlers); twoFactor: LoginResponse.RequiresTwoFactor;
\* sent: a request went out; resp, fault: the environment's inputs (the answer
\* to the first request, a fault of the file system); wrote: the call
\* completed a save; preFile, preAuth, preUpload: the file, IsAuthenticated()
\* and uploadService # nil when the call began.
Call(op, err, value, sent, resp, io, wrote) ==
    [op |-> op, err |-> err, value |-> value, twoFactor |-> FALSE, sent |-> sent,
     resp |-> resp, fault |-> io.fault # "none" \/ io.deny, wrote |-> wrote,
     preFile |-> file, preAuth |-> IsAuthenticated(cookies, now),
     preUpload |-> uploadService, preDir |-> dir]

\* No call is recorded: the caller has taken the last result.
NoCall ==
    [op |-> "none", err |-> <<>>, value |-> FALSE, twoFactor |-> FALSE, sent |-> FALSE,
     resp |-> NetFail, fault |-> FALSE, wrote |-> FALSE, preFile |-> NoFile,
     preAuth |-> FALSE, preUpload |-> FALSE, preDir |-> NoDir]

Idle == last = NoCall

\* The client state c becomes the state; written is the cookie set a
\* completed save encoded.
Commit(c, wrote, written) ==
    /\ BagCardinality(c.jar) <= MaxJar
    /\ cookies' = c.cookies
    /\ jar' = c.jar
    /\ file' = c.file
    /\ savedSet' = IF wrote THEN Saved(written)
                   ELSE IF c.file.data = file.data /\ c.file.exists THEN savedSet
                   ELSE NoSaved

\* The file-system inputs of a call that returned r0 without a fault: those
\* of a save when the call reached it.
IOsOf(r0) == IF r0.wrote THEN SaveIOs(file) ELSE {NoFault}

----------------------------------------------------------------------------
(* Spec: the session client, called directly *)

\* The asset pipeline before any call: no source, nothing prepared.
NoSource ==
    [img |-> [exists |-> FALSE, size |-> 0, readable |-> TRUE, decodable |-> FALSE,
              w |-> 0, h |-> 0],
     format |-> "png", noResize |-> FALSE, encLen |-> 0]
NotPrepared == [err |-> <<>>, dims |-> <<0, 0>>, steps |-> <<>>, format |-> "", len |-> 0]

\* pending: the last login was answered with required second-factor methods
\* and no verification has succeeded since (TwoFactorPending).
\* No login header and no upload form made, no call in progress.
NoLogin == [username |-> <<>>, password |-> <<>>, header |-> <<>>]
NoForm == [note |-> "", worldId |-> "", worldName |-> "", parts |-> <<>>]
\* No login, verification or startup check has succeeded, and no logout.
NoSession == [granted |-> FALSE, loggedOut |-> FALSE]
\* No resilient client built.
NotBuilt == [built |-> FALSE, baseURL |-> "", userAgent |-> "", cookies |-> EmptyBag]

AtRest ==
    /\ waits = <<>>
    /\ pending = FALSE
    /\ session = NoSession
    /\ login = NoLogin
    /\ form = NoForm
    /\ trace = <<>>
    /\ calls = <<>>
    /\ resilient = NotBuilt

\* The credential file a process may find: none, one left by an earlier save,
\* or one with other content or broader permissions.
InitFiles ==
    {NoFile} \cup
    { [exists |-> TRUE, mode |-> m, data |-> d] :
        m \in CreateModes,
        d \in {NoData} \cup
              { EncodeCookies(MergeCookies(NoCookies, l)) :
                  l \in { <<Cookie("auth", "t1", 2)>>, <<Cookie("auth", "t1", 0), SidCookie>> } } }

InitWith(f) ==
    LET c == NewClient(f, NoFault)
    IN  /\ now = 1
        /\ file = f
        /\ cookies = c.cookies
        /\ jar = c.jar
        /\ savedSet = IF f.exists /\ f.data.closed THEN Saved(DecodeCookies(f.data)) ELSE NoSaved
        /\ uploadService = FALSE
        /\ started = FALSE
        /\ last = NoCall
        /\ script = <<>>
        /\ attempts = <<>>
        /\ phase = "idle"
        /\ source = NoSource
        /\ imageData = NotPrepared
        /\ AtRest

Init ==
    /\ dir = Dir(OwnerOnlyDir)
    /\ \E f \in InitFiles : InitWith(f)

ClientNewClient ==
    /\ Idle
    /\ \E io \in OpenIOs(file) :
        LET c == NewClient(file, io)
        IN  /\ Commit(c, FALSE, NoCookies)
            /\ last' = Call("NewClient", <<>>, FALSE, FALSE, NetFail, io, FALSE)
            /\ UNCHANGED <<now, uploadService, started>>
    /\ UNCHANGED <<dir, transportVars, imageVars>>
    /\ UNCHANGED <<waits, pending, session, auxVars>>

ClientLogin ==
    /\ Idle
    /\ \E resp \in LoginResponses :
      \E io \in IOsOf(Login(Self, resp, NoFault)) :
        LET r == Login(Self, resp, io)
        IN  /\ Commit(r.c, r.wrote, r.c.cookies)
            /\ last' = Call("Login", r.err, r.err = <<>>, TRUE, resp, io, r.wrote)
            /\ UNCHANGED <<now, uploadService, started>>
    /\ UNCHANGED <<dir, transportVars, imageVars>>
    /\ UNCHANGED <<waits, pending, session, auxVars>>

ClientVerifyTOTPCode ==
    /\ Idle
    /\ \E resp \in VerifyResponses :
      \E io \in IOsOf(VerifyTOTPCode(Self, resp, NoFault)) :
        LET r == VerifyTOTPCode(Self, resp, io)
        IN  /\ Commit(r.c, r.wrote, r.c.cookies)
            /\ last' = Call("VerifyTOTPCode", r.err, r.err = <<>>, TRUE, resp, io, r.wrote)
            /\ UNCHANGED <<now, uploadService, started>>
    /\ UNCHANGED <<dir, transportVars, imageVars>>
    /\ UNCHANGED <<waits, pending, session, auxVars>>

ClientVerifyRecoveryCode ==
    /\ Idle
    /\ \E resp \in VerifyResponses :
      \E io \in IOsOf(VerifyRecoveryCode(Self, resp, NoFault)) :
        LET r == VerifyRecoveryCode(Self, resp, io)
        IN  /\ Commit(r.c, r.wrote, r.c.cookies)
            /\ last' = Call("VerifyRecoveryCode", r.err, r.err = <<>>, TRUE, resp, io, r.wrote)
            /\ UNCHANGED <<now, uploadService, started>>
    /\ UNCHANGED <<dir, transportVars, imageVars>>
    /\ UNCHANGED <<waits, pending, session, auxVars>>

ClientGetCurrentUser ==
    /\ Idle
    /\ \E resp \in UserResponses :
        LET r == GetCurrentUser(Self, resp)
        IN  /\ Commit(r.c, FALSE, NoCookies)
            /\ last' = Call("GetCurrentUser", r.err, r.err = <<>>, TRUE, resp, NoFault, FALSE)
            /\ UNCHANGED <<now, uploadService, started>>
    /\ UNCHANGED <<dir, transportVars, imageVars>>
    /\ UNCHANGED <<waits, pending, session, auxVars>>

ClientIsAuthenticated ==
    /\ Idle
    /\ last' = Call("IsAuthenticated", <<>>, IsAuthenticated(cookies, now), FALSE, NetFail,
                    NoFault, FALSE)
    /\ UNCHANGED <<now, cookies, jar, file, savedSet, uploadService, started>>
    /\ UNCHANGED <<dir, transportVars, imageVars>>
    /\ UNCHANGED <<waits, pending, session, auxVars>>

ClientLogout ==
    /\ Idle
    /\ \E io \in OpenIOs(file) :
        LET r == Logout(Self, io)
        IN  /\ Commit(r.c, FALSE, NoCookies)
            /\ last' = Call("Logout", r.err, r.err = <<>>, FALSE, NetFail, io, FALSE)
            /\ UNCHANGED <<now, uploadService, started>>
    /\ UNCHANGED <<dir, transportVars, imageVars>>
    /\ UNCHANGED <<waits, pending, session, auxVars>>

\* The clock advances between calls.
Tick ==
    /\ Idle
    /\ now < MaxTime
    /\ now' = now + 1
    /\ UNCHANGED <<cookies, jar, file, savedSet, uploadService, started, last>>
    /\ UNCHANGED <<dir, transportVars, imageVars>>
    /\ UNCHANGED <<waits, pending, session, auxVars>>

\* The caller takes the result of the call: the record of the call is cleared
\* and the next call may begin.
Return ==
    /\ ~Idle
    /\ last' = NoCall
    /\ UNCHANGED <<now, cookies, jar, file, savedSet, uploadService, started>>
    /\ script' = <<>>
    /\ attempts' = <<>>
    /\ UNCHANGED <<dir, phase, imageVars>>
    /\ UNCHANGED <<waits, pending, session, auxVars>>

Next ==
    \/ ClientNewClient
    \/ ClientLogin
    \/ ClientVerifyTOTPCode
    \/ ClientVerifyRecoveryCode
    \/ ClientGetCurrentUser
    \/ ClientIsAuthenticated
    \/ ClientLogout
    \/ Tick
    \/ Return

Spec == Init /\ [][Next]_vars

----------------------------------------------------------------------------
(* SpecHeader: createAuthHeader on usernames and passwords.  A text is a *)
(* sequence of characters, a character a string of length one.           *)

\* The usernames and passwords: texts of a letter, the separator, the escape
\* character, the space and the plus sign.
Texts == UNION { [1..k -> {"a", ":", "%", " ", "+"}] : k \in 0..MaxText }

\* The byte of every character that occurs in a credential or its escape.
CharCodes ==
    << <<" ", 32>>, <<"%", 37>>, <<"+", 43>>, <<"0", 48>>, <<"2", 50>>, <<"3", 51>>,
       <<"5", 53>>, <<":", 58>>, <<"A", 65>>, <<"B", 66>>, <<"a", 97>> >>

Code(ch) == CharCodes[CHOOSE i \in 1..Len(CharCodes) : CharCodes[i][1] = ch][2]
Char(code) == CharCodes[CHOOSE i \in 1..Len(CharCodes) : CharCodes[i][2] = code][1]

HexDigits == <<"0", "1", "2", "3", "4", "5", "6", "7", "8", "9", "A", "B", "C", "D", "E", "F">>

\* url.QueryEscape on one character: letters stay, the space becomes "+",
\* every other character becomes %XX.
EscapeChar(ch) ==
    IF ch = "a" THEN <<ch>>
    ELSE IF ch = " " THEN <<"+">>
    ELSE <<"%", HexDigits[(Code(ch) \div 16) + 1], HexDigits[(Code(ch) % 16) + 1]>>

RECURSIVE QueryEscape(_)
QueryEscape(t) == IF t = <<>> THEN <<>> ELSE EscapeChar(Head(t)) \o QueryEscape(Tail(t))

Base64Chars ==
    <<"A", "B", "C", "D", "E", "F", "G", "H", "I", "J", "K", "L", "M", "N",
       "O", "P", "Q", "R", "S", "T", "U", "V", "W", "X", "Y", "Z", "a", "b",
       "c", "d", "e", "f", "g", "h", "i", "j", "k", "l", "m", "n", "o", "p",
       "q", "r", "s", "t", "u", "v", "w", "x", "y", "z", "0", "1", "2", "3",
       "4", "5", "6", "7", "8", "9", "+", "/">>

\* base64.StdEncoding.EncodeToString: three bytes give four characters, and
\* the last group is padded with "=".
RECURSIVE EncodeToString(_)
EncodeToString(t) ==
    IF t = <<>> THEN <<>>
    ELSE IF Len(t) = 1
    THEN LET n == Code(t[1]) * 65536
         IN  <<Base64Chars[(n \div 262144) + 1], Base64Chars[((n \div 4096) % 64) + 1], "=", "=">>
    ELSE IF Len(t) = 2
    THEN LET n == Code(t[1]) * 65536 + Code(t[2]) * 256
         IN  <<Base64Chars[(n \div 262144) + 1], Base64Chars[((n \div 4096) % 64) + 1], Base64Chars[((n \div 64) % 64) + 1], "=">>
    ELSE LET n == Code(t[1]) * 65536 + Code(t[2]) * 256 + Code(t[3])
         IN  <<Base64Chars[(n \div 262144) + 1], Base64Chars[((n \div 4096) % 64) + 1], Base64Chars[((n \div 64) % 64) + 1],
               Base64Chars[(n % 64) + 1]>> \o EncodeToString(SubSeq(t, 4, Len(t)))

BasicPrefix == <<"B", "a", "s", "i", "c", " ">>

\* A header that joins the credentials as they are.
createAuthHeaderUnescaped(username, password) ==
    BasicPrefix \o EncodeToString(username \o <<":">> \o password)

createAuthHeader(username, password) ==
    BasicPrefix \o EncodeToString(QueryEscape(username) \o <<":">> \o QueryEscape(password))

InitHeader ==
    /\ dir = Dir(OwnerOnlyDir)
    /\ InitWith(NoFile)

\* Login makes the header of its request from opts.Username and opts.Password.
MakeHeader ==
    /\ login = NoLogin
    /\ \E u \in Texts, pw \in Texts :
        login' = [username |-> u, password |-> pw, header |-> createAuthHeader(u, pw)]
    /\ UNCHANGED <<now, cookies, jar, file, savedSet, uploadService, started, last>>
    /\ UNCHANGED <<dir, transportVars, imageVars, waits, pending, session, form, trace, calls, resilient>>

NextHeader ==
    \/ MakeHeader

SpecHeader == InitHeader /\ [][NextHeader]_vars

----------------------------------------------------------------------------
(* SpecSave: saveCookiesToFile step by step: os.Create, os.Chmod, Encode.  *)
(* phase is the position of the save: "idle", "created", "chmodded" or     *)
(* "returned"; last records the save in progress and the error it returns. *)

\* A response passes through the hook between two saves.
HookMerges ==
    /\ Idle
    /\ phase = "idle"
    /\ \E l \in SetCookieLists \ {<<>>} :
        Commit(saveCookies(Self, Http(200, ZeroBody, l)), FALSE, NoCookies)
    /\ UNCHANGED <<now, uploadService, started, last>>
    /\ UNCHANGED <<dir, transportVars, imageVars, waits, pending, session, auxVars>>

\* file, err := os.Create(cookieFile): an existing file is truncated and
\* keeps its mode, a new one gets 0666 less the umask.
SaveCreate ==
    /\ Idle
    /\ phase = "idle"
    /\ \E failed \in BOOLEAN, umode \in IF file.exists THEN {420} ELSE CreateModes :
        IF failed
        THEN /\ last' = Call("saveCookiesToFile", <<"open:", "permission", "denied">>, FALSE,
                             FALSE, NetFail, NoFault, FALSE)
             /\ phase' = "returned"
             /\ file' = file
        ELSE /\ last' = Call("saveCookiesToFile", <<>>, FALSE, FALSE, NetFail, NoFault, FALSE)
             /\ phase' = "created"
             /\ file' = [exists |-> TRUE, mode |-> IF file.exists THEN file.mode ELSE umode,
                         data |-> NoData]
    /\ UNCHANGED <<now, cookies, jar, savedSet, uploadService, started>>
    /\ UNCHANGED <<dir, script, attempts, imageVars, waits, pending, session, auxVars>>

\* A save that leaves the mode of the file as os.Create made it.
SaveChmodSkipped ==
    /\ phase = "created"
    /\ phase' = "chmodded"
    /\ UNCHANGED <<now, cookies, jar, file, savedSet, uploadService, started, last>>
    /\ UNCHANGED <<dir, script, attempts, imageVars, waits, pending, session, auxVars>>

\* if err := os.Chmod(cookieFile, 0600); err != nil { return err }
SaveChmod ==
    /\ phase = "created"
    /\ \E failed \in BOOLEAN :
        IF failed
        THEN /\ last' = [last EXCEPT !.err = <<"chmod:", "operation", "not", "permitted">>]
             /\ phase' = "returned"
             /\ file' = file
        ELSE /\ last' = last
             /\ phase' = "chmodded"
             /\ file' = [file EXCEPT !.mode = OwnerOnlyMode]
    /\ UNCHANGED <<now, cookies, jar, savedSet, uploadService, started>>
    /\ UNCHANGED <<dir, script, attempts, imageVars, waits, pending, session, auxVars>>

\* return json.NewEncoder(file).Encode(c.cookies)
SaveEncode ==
    /\ phase = "chmodded"
    /\ \E failed \in BOOLEAN :
        IF failed
        THEN /\ last' = [last EXCEPT !.err = <<"write:", "no", "space", "left">>]
             /\ file' = file
             /\ savedSet' = NoSaved
        ELSE /\ last' = [last EXCEPT !.wrote = TRUE]
             /\ file' = [file EXCEPT !.data = EncodeCookies(cookies)]
             /\ savedSet' = Saved(cookies)
    /\ phase' = "returned"
    /\ UNCHANGED <<now, cookies, jar, uploadService, started>>
    /\ UNCHANGED <<dir, script, attempts, imageVars, waits, pending, session, auxVars>>

\* The caller takes the error of the save.
SaveReturn ==
    /\ phase = "returned"
    /\ phase' = "idle"
    /\ last' = NoCall
    /\ UNCHANGED <<now, cookies, jar, file, savedSet, uploadService, started>>
    /\ UNCHANGED <<dir, script, attempts, imageVars, waits, pending, session, auxVars>>

NextSave ==
    \/ HookMerges
    \/ SaveCreate
    \/ SaveChmod
    \/ SaveEncode
    \/ SaveReturn

SpecSave == Init /\ [][NextSave]_vars

----------------------------------------------------------------------------
(* SpecConfig: the session client and the directory of its file *)

\* A process may find the directory absent, as Load made it, or as someone
\* else made it; the file is there only when the directory is.
InitConfig ==
    /\ dir \in {NoDir, Dir(OwnerOnlyDir), Dir(493)}
    /\ \E f \in IF dir.exists THEN InitFiles ELSE {NoFile} : InitWith(f)

ConfigLoad ==
    /\ Idle
    /\ \E in \in LoadInputs :
        LET r == Load(dir, in)
        IN  /\ dir' = r.dir
            /\ last' = Call("Load", r.err, r.err = <<>>, FALSE, NetFail, NoFault, FALSE)
    /\ UNCHANGED <<now, cookies, jar, file, savedSet, uploadService, started>>
    /\ UNCHANGED <<transportVars, imageVars>>
    /\ UNCHANGED <<waits, pending, session, auxVars>>

\* The environment removes the directory with what is in it.
RemoveConfigDir ==
    /\ Idle
    /\ dir.exists
    /\ dir' = NoDir
    /\ file' = NoFile
    /\ savedSet' = NoSaved
    /\ UNCHANGED <<now, cookies, jar, uploadService, started, last>>
    /\ UNCHANGED <<transportVars, imageVars>>
    /\ UNCHANGED <<waits, pending, session, auxVars>>

NextConfig ==
    \/ ConfigLoad
    \/ RemoveConfigDir
    \/ ClientNewClient
    \/ ClientLogin
    \/ ClientLogout
    \/ Return

SpecConfig == InitConfig /\ [][NextConfig]_vars

----------------------------------------------------------------------------
(* The transports: the session client's own http client and the resilient *)
(* client that client.New builds                                           *)

maxRetries == 3

\* A retry condition that takes every error status for a reason to retry.
RetryConditionAnyErrorStatus(r) == r.failed \/ r.status >= 400

\* The function given to AddRetryCondition, on the outcome r of an attempt:
\* err != nil, or status 429, or status >= 500.
RetryCondition(r) == r.failed \/ r.status = 429 \/ r.status >= 500

\* A session client whose http client retries a failed attempt.
AuthTransportRetrying == [retryCount |-> maxRetries, conditional |-> FALSE]

\* A transport is its retry count and whether it carries the retry condition.
\* resty.New() alone, as in auth.NewClient, has retry count 0 and no condition.
AuthTransport == [retryCount |-> 0, conditional |-> FALSE]
ResilientTransport == [retryCount |-> maxRetries, conditional |-> TRUE]

\* resty decides after an attempt whether the request needs a retry: by
\* default on an error of the attempt, and by the retry conditions when there
\* are any.
NeedsRetry(t, r) == IF t.conditional THEN RetryCondition(r) ELSE r.failed

\* A retry loop that does not count its attempts.
ContinuesUnbounded(t, made) == NeedsRetry(t, made[Len(made)])

\* After the attempts made (at least one), the retry loop goes on to another
\* attempt: the last one needs a retry and was not attempt number retryCount
\* counted from 0.
Continues(t, made) ==
    /\ NeedsRetry(t, made[Len(made)])
    /\ Len(made) - 1 < t.retryCount

\* Durations are in milliseconds.
retryWaitTime == 1000
maxRetryWait == 10000

RECURSIVE Exp2(_)
Exp2(n) == IF n = 0 THEN 1 ELSE 2 * Exp2(n - 1)

\* A backoff that does not raise a wait below the minimum to the minimum.
jitterBackoffNoFloor(min, max, attempt) ==
    LET grown == min * Exp2(attempt)
        temp == IF max < grown THEN max ELSE grown
        ri == temp \div 2
    IN  { ri + j : j \in {0, ri \div 2, ri - 1} }

\* resty's jitterBackoff, the wait after attempt number attempt (from 0) when
\* no RetryAfter callback is set: half of min * 2^attempt capped at max, plus
\* a random part below that half, and at least min.  The random part
\* rand.Int63n(ri) is taken at its least, a middle and its greatest value.
jitterBackoff(min, max, attempt) ==
    LET grown == min * Exp2(attempt)
        temp == IF max < grown THEN max ELSE grown
        ri == temp \div 2
    IN  { IF ri + j < min THEN min ELSE ri + j : j \in {0, ri \div 2, ri - 1} }

\* The attempts of one request through transport t when the server answers
\* the successive attempts with scr, which is long enough.
RECURSIVE Backoff(_, _, _)
Backoff(t, scr, made) ==
    LET next == Append(made, scr[Len(made) + 1])
    IN  IF Continues(t, next) /\ Len(next) < Len(scr) THEN Backoff(t, scr, next) ELSE next

\* What the caller of the request gets: the outcome of the last attempt.
Final(made) == made[Len(made)]

----------------------------------------------------------------------------
(* SpecTransport: one request at a time through the resilient transport, *)
(* attempt by attempt                                                    *)

\* The outcome of one attempt: an error of the attempt or a response.
TransportOutcomes ==
    {NetFail} \cup { Http(st, ZeroBody, <<>>) : st \in {200, 404, 429, 499, 500} }


InitTransport ==
    /\ dir = Dir(OwnerOnlyDir)
    /\ InitWith(NoFile)

\* The caller starts a request; the server's answers are fixed from here.
TransportSend ==
    /\ phase = "idle"
    /\ \E scr \in [1..MaxScript -> TransportOutcomes] : script' = scr
    /\ attempts' = <<>>
    /\ waits' = <<>>
    /\ phase' = "sending"
    /\ UNCHANGED <<now, cookies, jar, file, savedSet, uploadService, started, last>>
    /\ UNCHANGED <<dir, imageVars>>
    /\ UNCHANGED <<pending, session, auxVars>>

\* One attempt: the first, or the next when the retry loop goes on, after
\* the wait that follows the attempt before it.
TransportAttempt ==
    /\ phase = "sending"
    /\ IF attempts = <<>> THEN TRUE ELSE Continues(ResilientTransport, attempts)
    /\ Len(attempts) < Len(script)
    /\ attempts' = Append(attempts, script[Len(attempts) + 1])
    /\ IF attempts = <<>> THEN waits' = waits
       ELSE \E w \in jitterBackoff(retryWaitTime, maxRetryWait, Len(attempts) - 1) :
                waits' = Append(waits, w)
    /\ UNCHANGED <<now, cookies, jar, file, savedSet, uploadService, started, last>>
    /\ UNCHANGED <<dir, script, phase, imageVars>>
    /\ UNCHANGED <<pending, session, auxVars>>

\* The retry loop ends and the request returns the last attempt's outcome.
TransportReturn ==
    /\ phase = "sending"
    /\ attempts # <<>>
    /\ ~Continues(ResilientTransport, attempts)
    /\ phase' = "returned"
    /\ UNCHANGED <<now, cookies, jar, file, savedSet, uploadService, started, last>>
    /\ UNCHANGED <<dir, script, attempts, imageVars>>
    /\ UNCHANGED <<waits, pending, session, auxVars>>

\* The caller takes the outcome.
TransportTake ==
    /\ phase = "returned"
    /\ phase' = "idle"
    /\ script' = <<>>
    /\ attempts' = <<>>
    /\ waits' = <<>>
    /\ UNCHANGED <<now, cookies, jar, file, savedSet, uploadService, started, last>>
    /\ UNCHANGED <<dir, imageVars>>
    /\ UNCHANGED <<pending, session, auxVars>>

NextTransport ==
    \/ TransportSend
    \/ TransportAttempt
    \/ TransportReturn
    \/ TransportTake

SpecTransport == InitTransport /\ [][NextTransport]_vars

\* Every attempt ends, by an answer or by the timeout of the request, and the
\* wait before a retry is bounded: a request in progress keeps moving.
SpecTransportFair ==
    /\ InitTransport
    /\ [][NextTransport]_vars
    /\ WF_vars(TransportAttempt)
    /\ WF_vars(TransportReturn)

----------------------------------------------------------------------------
(* SpecOnce: the requests of the session client, sent through its own http *)
(* client (resty.New() as NewClient leaves it) while the server has an     *)
(* answer ready for a second attempt                                       *)

\* The operation op of the session client on the response resp.
ClientOp(op, c, resp, io) ==
    CASE op = "Login" -> Login(c, resp, io)
      [] op = "VerifyTOTPCode" -> VerifyTOTPCode(c, resp, io)
      [] op = "VerifyRecoveryCode" -> VerifyRecoveryCode(c, resp, io)
      [] OTHER -> [c |-> GetCurrentUser(c, resp).c, err |-> GetCurrentUser(c, resp).err,
                   wrote |-> FALSE]

ClientCall ==
    /\ Idle
    /\ \E op \in {"Login", "VerifyTOTPCode", "VerifyRecoveryCode", "GetCurrentUser"} :
        \E first \in (CASE op = "Login" -> LoginResponses
                        [] op = "GetCurrentUser" -> UserResponses
                        [] OTHER -> VerifyResponses),
           second \in {NetFail, Http(200, [ZeroBody EXCEPT !.user = TRUE, !.verified = TRUE], <<>>)} :
            LET made == Backoff(AuthTransport, <<first, second>>, <<>>)
                r == ClientOp(op, Self, Final(made), NoFault)
            IN  /\ Commit(r.c, r.wrote, r.c.cookies)
                /\ last' = Call(op, r.err, r.err = <<>>, TRUE, Final(made), NoFault, r.wrote)
                /\ script' = <<first, second>>
                /\ attempts' = made
    /\ UNCHANGED <<now, uploadService, started>>
    /\ UNCHANGED <<dir, phase, imageVars, waits, pending, session, auxVars>>

NextOnce ==
    \/ ClientCall
    \/ Return

SpecOnce == InitTransport /\ [][NextOnce]_vars

-----------------------------------------------------------------------------
(* SpecSnapshot: client.New builds the resilient client from the session    *)
(* client's resty client; both then receive responses.                      *)

\* What client.New reads of the resty client GetHTTPClient returns: the base
\* address and the User-Agent header NewClient set, and Client.Cookies.
GetHTTPClient ==
    [baseURL |-> "https://api.vrchat.cloud/api/1", userAgent |-> "vrc-print-upload/1.0",
     jar |-> jar]

\* client := resty.New(); SetBaseURL, SetCookies and SetHeader copy the three
\* settings: SetCookies appends the given cookies to the new client's own,
\* empty Client.Cookies.
New(authClient) ==
    [built |-> TRUE, baseURL |-> authClient.baseURL, userAgent |-> authClient.userAgent,
     cookies |-> SetCookies(EmptyBag, authClient.jar)]

\* A hook that would keep the cookies of the responses, as saveCookies does.
ResilientHookKeepsCookies(rc, resp) ==
    [rc EXCEPT !.cookies = SetCookies(@, CookieSlice(MergeCookies(NoCookies, resp.setCookies)))]

\* The OnAfterResponse hook of the resilient client reads the
\* X-RateLimit-Remaining header and returns nil.
ResilientHook(rc, resp) ==
    rc

NewCalled ==
    /\ Idle
    /\ ~resilient.built
    /\ resilient' = New(GetHTTPClient)
    /\ UNCHANGED <<now, cookies, jar, file, savedSet, uploadService, started, last>>
    /\ UNCHANGED <<dir, transportVars, imageVars, waits, pending, session, login, form, trace, calls>>

\* The resilient client receives a response to a request of its own.
ResilientResponse ==
    /\ Idle
    /\ resilient.built
    /\ \E st \in {200, 500}, l \in SetCookieLists :
        LET resp == Http(st, ZeroBody, l)
        IN  /\ resilient' = ResilientHook(resilient, resp)
            /\ last' = Call("resilient", <<>>, st = 200, TRUE, resp, NoFault, FALSE)
    /\ UNCHANGED <<now, cookies, jar, file, savedSet, uploadService, started>>
    /\ UNCHANGED <<dir, transportVars, imageVars, waits, pending, session, login, form, trace, calls>>

NextSnapshot ==
    \/ NewCalled
    \/ HookMerges
    \/ ResilientResponse
    \/ Return

SpecSnapshot == InitTransport /\ [][NextSnapshot]_vars

----------------------------------------------------------------------------
(* upload.Uploader, as the App uses it *)

MaxImageSize == 33554432
MaxResolution == 2048
Print1080pWidth == 1920
Print1080pHeight == 1080

\* A source image: whether os.Stat finds it, its size in bytes, whether
\* image.Decode reads it, and its bounds.
Image(e, sz, d, w, h) ==
    [exists |-> e, size |-> sz, readable |-> TRUE, decodable |-> d, w |-> w, h |-> h]

Images ==
    { Image(FALSE, 0, FALSE, 0, 0),
      Image(TRUE, MaxImageSize + 1, TRUE, 800, 600),
      Image(TRUE, MaxImageSize, FALSE, 0, 0),
      [Image(TRUE, 4096, TRUE, 800, 600) EXCEPT !.readable = FALSE],
      Image(TRUE, 4096, TRUE, 800, 600),
      Image(TRUE, 4096, TRUE, 3000, 4000) }

\* The length png.Encode gives the output: decided by the pixels, which the
\* model leaves open.
EncodedLengths == {MaxImageSize, MaxImageSize + 1}

\* A proportional side that is cut off, not rounded.
ScaledTruncated(a, b, to) ==
    LET v == (a * to) \div b IN IF v < 1 THEN 1 ELSE v

\* imaging.Resize with one side 0 keeps the aspect ratio: the other side is
\* the rounded proportional value, at least 1.
Scaled(a, b, to) ==
    LET v == (2 * a * to + b) \div (2 * b) IN IF v < 1 THEN 1 ELSE v

\* A resize that takes a square source for a landscape one.
resizeImageSquareLandscape(w, h, noResize) ==
    IF ~noResize
    THEN IF w >= h THEN <<Print1080pWidth, Print1080pHeight>>
         ELSE <<Print1080pHeight, Print1080pWidth>>
    ELSE IF w > MaxResolution \/ h > MaxResolution
         THEN IF w > h THEN <<MaxResolution, Scaled(h, w, MaxResolution)>>
              ELSE <<Scaled(w, h, MaxResolution), MaxResolution>>
         ELSE <<w, h>>

\* A resize that scales to the print format whatever noResize says.
resizeImageAlways(w, h, noResize) ==
    IF w > h THEN <<Print1080pWidth, Print1080pHeight>>
    ELSE <<Print1080pHeight, Print1080pWidth>>

resizeImage(w, h, noResize) ==
    IF ~noResize
    THEN IF w > h THEN <<Print1080pWidth, Print1080pHeight>>
         ELSE <<Print1080pHeight, Print1080pWidth>>
    ELSE IF w > MaxResolution \/ h > MaxResolution
         THEN IF w > h THEN <<MaxResolution, Scaled(h, w, MaxResolution)>>
              ELSE <<Scaled(w, h, MaxResolution), MaxResolution>>
         ELSE <<w, h>>

\* A pipeline that decodes the file before it looks at its size.
prepareImageDecodeFirst(img, noResize, encLen) ==
    IF ~img.exists
    THEN [err |-> <<"failed", "to", "stat", "image", "file">>, dims |-> <<0, 0>>,
          steps |-> <<"stat">>, format |-> "", len |-> 0]
    ELSE IF ~img.readable
    THEN [err |-> <<"failed", "to", "open", "image", "file">>, dims |-> <<0, 0>>,
          steps |-> <<"stat", "open">>, format |-> "", len |-> 0]
    ELSE IF ~img.decodable
    THEN [err |-> <<"failed", "to", "decode", "image">>, dims |-> <<0, 0>>,
          steps |-> <<"stat", "open", "decode">>, format |-> "", len |-> 0]
    ELSE IF img.size > MaxImageSize
    THEN [err |-> <<"image", "file", "too", "large">>, dims |-> <<0, 0>>,
          steps |-> <<"stat", "open", "decode">>, format |-> "", len |-> 0]
    ELSE [err |-> <<>>, dims |-> resizeImage(img.w, img.h, noResize),
          steps |-> <<"stat", "open", "decode", "resize", "encode">>,
          format |-> "png", len |-> encLen]

\* A pipeline that does not look at the length of what it encoded.
prepareImageNoFinalCheck(img, noResize, encLen) ==
    IF ~img.exists
    THEN [err |-> <<"failed", "to", "stat", "image", "file">>, dims |-> <<0, 0>>,
          steps |-> <<"stat">>, format |-> "", len |-> 0]
    ELSE IF img.size > MaxImageSize
    THEN [err |-> <<"image", "file", "too", "large">>, dims |-> <<0, 0>>,
          steps |-> <<"stat">>, format |-> "", len |-> 0]
    ELSE IF ~img.readable
    THEN [err |-> <<"failed", "to", "open", "image", "file">>, dims |-> <<0, 0>>,
          steps |-> <<"stat", "open">>, format |-> "", len |-> 0]
    ELSE IF ~img.decodable
    THEN [err |-> <<"failed", "to", "decode", "image">>, dims |-> <<0, 0>>,
          steps |-> <<"stat", "open", "decode">>, format |-> "", len |-> 0]
    ELSE [err |-> <<>>, dims |-> resizeImage(img.w, img.h, noResize),
          steps |-> <<"stat", "open", "decode", "resize", "encode">>,
          format |-> "png", len |-> encLen]

\* The stages of prepareImage, each a return with an error; steps lists the
\* calls made on the source, in order, up to the return.  What it returns is
\* what png.Encode wrote: format and len are the encoding and buf.Len().
prepareImage(img, noResize, encLen) ==
    IF ~img.exists
    THEN [err |-> <<"failed", "to", "stat", "image", "file">>, dims |-> <<0, 0>>,
          steps |-> <<"stat">>, format |-> "", len |-> 0]
    ELSE IF img.size > MaxImageSize
    THEN [err |-> <<"image", "file", "too", "large">>, dims |-> <<0, 0>>,
          steps |-> <<"stat">>, format |-> "", len |-> 0]
    ELSE IF ~img.readable
    THEN [err |-> <<"failed", "to", "open", "image", "file">>, dims |-> <<0, 0>>,
          steps |-> <<"stat", "open">>, format |-> "", len |-> 0]
    ELSE IF ~img.decodable
    THEN [err |-> <<"failed", "to", "decode", "image">>, dims |-> <<0, 0>>,
          steps |-> <<"stat", "open", "decode">>, format |-> "", len |-> 0]
    ELSE IF encLen > MaxImageSize
    THEN [err |-> <<"encoded", "image", "too", "large">>, dims |-> <<0, 0>>,
          steps |-> <<"stat", "open", "decode", "resize", "encode">>, format |-> "", len |-> 0]
    ELSE [err |-> <<>>, dims |-> resizeImage(img.w, img.h, noResize),
          steps |-> <<"stat", "open", "decode", "resize", "encode">>,
          format |-> "png", len |-> encLen]

\* Bodies of POST /prints as UploadResult reads them.
UploadResponses ==
    {NetFail} \cup { Http(200, [ZeroBody EXCEPT !.user = TRUE], sc) : sc \in SetCookieLists } \cup
    { Http(st, [ZeroBody EXCEPT !.error = <<"Unauthorized">>], <<>>) : st \in {401, 429, 500} }

\* An Upload that posts what it has when the pipeline failed.
UploadSendsAnyway(c, img, noResize, encLen, resp) ==
    LET prepared == prepareImage(img, noResize, encLen)
        c1 == Execute(c, resp)
    IN  IF resp.failed
        THEN [c |-> c1, err |-> <<"upload", "request", "failed:">> \o resp.errText,
              sent |-> TRUE, result |-> FALSE]
        ELSE IF resp.status # 200 \/ prepared.err # <<>>
        THEN [c |-> c1,
              err |-> <<"upload", "failed", "with", "status", ToString(resp.status)>>
                        \o resp.body.error,
              sent |-> TRUE, result |-> FALSE]
        ELSE [c |-> c1, err |-> <<>>, sent |-> TRUE, result |-> TRUE]

\* An Upload that hands out whatever the response decoded to, whatever its
\* status.
UploadIgnoresStatus(c, img, noResize, encLen, resp) ==
    LET prepared == prepareImage(img, noResize, encLen)
    IN  IF prepared.err # <<>>
        THEN [c |-> c, err |-> <<"failed", "to", "prepare", "image:">> \o prepared.err,
              sent |-> FALSE, result |-> FALSE]
        ELSE IF resp.failed
        THEN [c |-> Execute(c, resp), err |-> <<"upload", "request", "failed:">> \o resp.errText,
              sent |-> TRUE, result |-> FALSE]
        ELSE [c |-> Execute(c, resp), err |-> <<>>, sent |-> TRUE, result |-> TRUE]

\* Upload through the client the Uploader was built on: c is that client's
\* state, and every response passes through its hooks.
Upload(c, img, noResize, encLen, resp) ==
    LET prepared == prepareImage(img, noResize, encLen)
        c1 == Execute(c, resp)
    IN  IF prepared.err # <<>>
        THEN [c |-> c, err |-> <<"failed", "to", "prepare", "image:">> \o prepared.err,
              sent |-> FALSE, result |-> FALSE]
        ELSE IF resp.failed
        THEN [c |-> c1, err |-> <<"upload", "request", "failed:">> \o resp.errText,
              sent |-> TRUE, result |-> FALSE]
        ELSE IF resp.status # 200
        THEN [c |-> c1,
              err |-> <<"upload", "failed", "with", "status", ToString(resp.status)>>
                        \o resp.body.error,
              sent |-> TRUE, result |-> FALSE]
        ELSE [c |-> c1, err |-> <<>>, sent |-> TRUE, result |-> TRUE]

----------------------------------------------------------------------------
(* SpecImage: prepareImage on source files of every shape *)

\* Widths and heights of decoded images, around the limits of the pipeline.
Sides == {1, 600, 1080, 1920, 2047, 2048, 2049, 3000, 4000, 4097}

PipelineImages ==
    { Image(FALSE, 0, FALSE, 0, 0),
      Image(TRUE, MaxImageSize + 1, TRUE, 800, 600),
      Image(TRUE, MaxImageSize, TRUE, 800, 600),
      Image(TRUE, MaxImageSize, FALSE, 0, 0),
      [Image(TRUE, 4096, TRUE, 800, 600) EXCEPT !.readable = FALSE] } \cup
    { Image(TRUE, 4096, TRUE, w, h) : w \in Sides, h \in Sides }

\* image.Decode reads any registered format; the pipeline drops the format.
Formats == {"png", "jpeg", "gif"}

Sources ==
    [img : PipelineImages, format : Formats, noResize : BOOLEAN, encLen : EncodedLengths]

InitImage ==
    /\ now = 1
    /\ cookies = NoCookies
    /\ jar = EmptyBag
    /\ file = NoFile
    /\ savedSet = NoSaved
    /\ uploadService = FALSE
    /\ started = FALSE
    /\ last = NoCall
    /\ dir = Dir(OwnerOnlyDir)
    /\ script = <<>>
    /\ attempts = <<>>
    /\ phase = "idle"
    /\ source \in Sources
    /\ imageData = NotPrepared
    /\ AtRest

PrepareImage ==
    /\ imageData = NotPrepared
    /\ imageData' = prepareImage(source.img, source.noResize, source.encLen)
    /\ UNCHANGED <<now, cookies, jar, file, savedSet, uploadService, started, last>>
    /\ UNCHANGED <<dir, transportVars, source>>
    /\ UNCHANGED <<waits, pending, session, auxVars>>

\* The caller goes on to another file.
ChooseImage ==
    /\ imageData # NotPrepared
    /\ source' \in Sources
    /\ imageData' = NotPrepared
    /\ UNCHANGED <<now, cookies, jar, file, savedSet, uploadService, started, last>>
    /\ UNCHANGED <<dir, transportVars>>
    /\ UNCHANGED <<waits, pending, session, auxVars>>

NextImage ==
    \/ PrepareImage
    \/ ChooseImage

SpecImage == InitImage /\ [][NextImage]_vars

----------------------------------------------------------------------------
(* SpecUpload: Uploader.Upload, called on an uploader built on either *)
(* transport                                                          *)

\* What the server may answer to one attempt of POST /prints.
UploadOutcomes ==
    {NetFail} \cup
    { Http(st, [ZeroBody EXCEPT !.user = TRUE], <<>>) : st \in {200, 201} } \cup
    { Http(st, [ZeroBody EXCEPT !.error = <<"Unauthorized">>], <<>>) : st \in {401, 429, 500} }

\* The answers to as many attempts as a request can make.
UploadAnswerScripts == [1..(1 + maxRetries) -> UploadOutcomes]

UploadCall ==
    /\ Idle
    /\ \E t \in {AuthTransport, ResilientTransport}, img \in Images :
        \E noResize \in IF img.decodable THEN BOOLEAN ELSE {FALSE} :
          \E encLen \in IF img.decodable THEN EncodedLengths ELSE {MaxImageSize} :
            \E scr \in IF prepareImage(img, noResize, encLen).err = <<>>
                       THEN UploadAnswerScripts ELSE {<<NetFail>>} :
              LET made == Backoff(t, scr, <<>>)
                  r == Upload(Self, img, noResize, encLen, Final(made))
              IN  /\ Commit(IF t.conditional THEN Self ELSE r.c, FALSE, NoCookies)
                  /\ last' = Call("Upload", r.err, r.result, r.sent, Final(made), NoFault, FALSE)
                  /\ script' = IF r.sent THEN scr ELSE <<>>
                  /\ attempts' = IF r.sent THEN made ELSE <<>>
                  /\ source' = [img |-> img, format |-> "png", noResize |-> noResize,
                                encLen |-> encLen]
                  /\ imageData' = prepareImage(img, noResize, encLen)
    /\ UNCHANGED <<now, uploadService, started, dir, phase>>
    /\ UNCHANGED <<waits, pending, session, auxVars>>

NextUpload ==
    \/ UploadCall
    \/ Return

SpecUpload == InitTransport /\ [][NextUpload]_vars

----------------------------------------------------------------------------
(* SpecSend: one Upload through the resilient transport, step by step: the *)
(* pipeline, the multipart form, and the attempts with the clock running   *)


Part(n, ct, v) == [name |-> n, contentType |-> ct, value |-> v]

\* WriteField for a text option, only when it is not empty.
Field(n, v) == IF v = "" THEN <<>> ELSE <<Part(n, "", v)>>

\* A form that writes every field, empty or not.
createMultipartFormAllFields(data, o, t) ==
    << Part("image", "image/png", [dims |-> data.dims, format |-> data.format, len |-> data.len]), Part("timestamp", "", FormatTime(t)),
       Part("note", "", o.note), Part("worldId", "", o.worldId),
       Part("worldName", "", o.worldName) >>

\* createMultipartForm at time t: the image part, the timestamp, and the
\* options that are not empty, in this order.
createMultipartForm(data, o, t) ==
    << Part("image", "image/png", [dims |-> data.dims, format |-> data.format, len |-> data.len]), Part("timestamp", "", FormatTime(t)) >>
        \o Field("note", o.note) \o Field("worldId", o.worldId)
        \o Field("worldName", o.worldName)

\* A request that builds its body anew for every attempt.
RequestBodyRebuilt(built, data, o, t) == createMultipartForm(data, o, t)

\* The body an attempt at time t sends: SetBody(body.Bytes()) fixed the bytes
\* when the request was made, and every attempt sends them.
RequestBody(built, data, o, t) == built

Event(e, b) == [ev |-> e, at |-> now, body |-> b]

SendOutcomes ==
    { Http(200, [ZeroBody EXCEPT !.user = TRUE], <<>>),
      Http(500, [ZeroBody EXCEPT !.error = <<"Unauthorized">>], <<>>) }


\* Upload begins: prepareImage runs to its end.
SendPrepare ==
    /\ Idle
    /\ phase = "idle"
    /\ \E img \in { Image(TRUE, 4096, TRUE, 800, 600), Image(FALSE, 0, FALSE, 0, 0) },
          noResize \in BOOLEAN,
          o \in [note : {"", "hello"}, worldId : {"", "wrld_1"}, worldName : {"", "Home"}] :
      \E fmt \in Formats, encLen \in IF img.decodable THEN EncodedLengths ELSE {MaxImageSize} :
        LET data == prepareImage(img, noResize, encLen)
        IN  /\ source' = [img |-> img, format |-> fmt, noResize |-> noResize,
                          encLen |-> encLen]
            /\ imageData' = data
            /\ form' = [note |-> o.note, worldId |-> o.worldId, worldName |-> o.worldName,
                        parts |-> <<>>]
            /\ phase' = IF data.err = <<>> THEN "prepared" ELSE "returned"
    /\ \E scr \in [1..(1 + maxRetries) -> SendOutcomes] : script' = scr
    /\ trace' = <<Event("prepared", <<>>)>>
    /\ attempts' = <<>>
    /\ UNCHANGED <<now, cookies, jar, file, savedSet, uploadService, started, last>>
    /\ UNCHANGED <<dir, waits, pending, session, login, calls, resilient>>

\* createMultipartForm, which reads the clock for the timestamp.
SendBuildForm ==
    /\ phase = "prepared"
    /\ form' = [form EXCEPT !.parts = createMultipartForm(imageData, form, now)]
    /\ trace' = Append(trace, Event("timestamp", <<>>))
    /\ phase' = "sending"
    /\ UNCHANGED <<now, cookies, jar, file, savedSet, uploadService, started, last>>
    /\ UNCHANGED <<dir, script, attempts, imageVars, waits, pending, session, login, calls, resilient>>

\* One attempt of the POST: the first, or a retry.
SendAttempt ==
    /\ phase = "sending"
    /\ form.parts # <<>>
    /\ IF attempts = <<>> THEN TRUE ELSE Continues(ResilientTransport, attempts)
    /\ attempts' = Append(attempts, script[Len(attempts) + 1])
    /\ trace' = Append(trace, Event("attempt", RequestBody(form.parts, imageData, form, now)))
    /\ UNCHANGED <<now, cookies, jar, file, savedSet, uploadService, started, last>>
    /\ UNCHANGED <<dir, script, phase, imageVars, waits, pending, session, login, form, calls, resilient>>

\* The request returns and Upload with it.
SendReturn ==
    /\ phase = "sending"
    /\ attempts # <<>>
    /\ ~Continues(ResilientTransport, attempts)
    /\ phase' = "returned"
    /\ UNCHANGED <<now, cookies, jar, file, savedSet, uploadService, started, last>>
    /\ UNCHANGED <<dir, script, attempts, imageVars, waits, pending, session, auxVars>>

\* The caller takes the result.
SendTake ==
    /\ phase = "returned"
    /\ trace # <<>>
    /\ phase' = "idle"
    /\ script' = <<>>
    /\ attempts' = <<>>
    /\ trace' = <<>>
    /\ form' = NoForm
    /\ source' = NoSource
    /\ imageData' = NotPrepared
    /\ UNCHANGED <<now, cookies, jar, file, savedSet, uploadService, started, last>>
    /\ UNCHANGED <<dir, waits, pending, session, login, calls, resilient>>

NextSend ==
    \/ SendPrepare
    \/ SendBuildForm
    \/ SendAttempt
    \/ SendReturn
    \/ SendTake
    \/ Tick

SpecSend == InitTransport /\ [][NextSend]_vars

----------------------------------------------------------------------------
(* SpecConcurrent: two calls on one session client at once, each in its own *)
(* goroutine, step by step.  calls holds the position of every call: a      *)
(* response in the OnAfterResponse hook (saveCookies) or a Logout.  Client  *)
(* has no lock, so every step is enabled whatever the other call is doing.  *)
(* A map write that overlaps another access of the map is a data race: the  *)
(* runtime may stop the process ("concurrent map writes") or go on, and the *)
(* write may be lost.                                                        *)

\* A call that has entered saveCookies with the cookies l of its response, or
\* Logout.
Entered(op, l) ==
    [op |-> op, pc |-> IF op = "Logout" THEN "replace" ELSE "range", list |-> l, rest |-> l,
     slice |-> EmptyBag, raced |-> FALSE]

Running == \A g \in DOMAIN calls : calls[g].pc # "fatal"

Assigning == { g \in DOMAIN calls : calls[g].pc = "assign" }

\* The calls whose map write is overlapped by an access of the map by g.
Overlapped(g) == [h \in DOMAIN calls |->
                    IF h \in Assigning \/ h = g THEN [calls[h] EXCEPT !.raced = TRUE]
                    ELSE calls[h]]

constantVars == <<now, savedSet, uploadService, started, last, dir, transportVars, imageVars,
                  waits, pending, session, login, form, trace, resilient>>

\* A response reaches the hook of the client.
ResponseArrives ==
    /\ Running
    /\ Len(calls) < 2
    /\ \E l \in SetCookieLists \ {<<>>} : calls' = Append(calls, Entered("saveCookies", l))
    /\ UNCHANGED <<cookies, jar, file, constantVars>>

LogoutCalled ==
    /\ Running
    /\ Len(calls) < 2
    /\ calls' = Append(calls, Entered("Logout", <<>>))
    /\ UNCHANGED <<cookies, jar, file, constantVars>>

\* c.cookies[cookie.Name] = cookie, entered.
MapAssignBegin(g) ==
    /\ Running
    /\ calls[g].pc = "range" /\ calls[g].rest # <<>>
    /\ IF Assigning = {}
       THEN calls' = [calls EXCEPT ![g].pc = "assign"]
       ELSE \/ calls' = [calls EXCEPT ![g].pc = "fatal"]
            \/ calls' = [Overlapped(g) EXCEPT ![g].pc = "assign"]
    /\ UNCHANGED <<cookies, jar, file, constantVars>>

\* c.cookies[cookie.Name] = cookie, left.
MapAssignEnd(g) ==
    /\ Running
    /\ calls[g].pc = "assign"
    /\ cookies' \in {MergeCookies(cookies, <<Head(calls[g].rest)>>)}
                        \cup (IF calls[g].raced THEN {cookies} ELSE {})
    /\ calls' = [calls EXCEPT ![g].pc = "range", ![g].rest = Tail(@), ![g].raced = FALSE]
    /\ UNCHANGED <<jar, file, constantVars>>

\* for _, cookie := range c.cookies { cookies = append(cookies, cookie) }
CollectSlice(g) ==
    /\ Running
    /\ calls[g].op = "saveCookies" /\ calls[g].pc = "range" /\ calls[g].rest = <<>>
    /\ IF Assigning = {}
       THEN calls' = [calls EXCEPT ![g].pc = "set", ![g].slice = CookieSlice(cookies)]
       ELSE \/ calls' = [calls EXCEPT ![g].pc = "fatal"]
            \/ calls' = [Overlapped(g) EXCEPT ![g].pc = "set", ![g].raced = FALSE,
                                              ![g].slice = CookieSlice(cookies)]
    /\ UNCHANGED <<cookies, jar, file, constantVars>>

\* c.httpClient.SetCookies(cookies)
SetJar(g) ==
    /\ Running
    /\ calls[g].pc = "set"
    /\ jar' = SetCookies(jar, calls[g].slice)
    /\ calls' = [calls EXCEPT ![g].pc = "done"]
    /\ UNCHANGED <<cookies, file, constantVars>>

\* c.cookies = make(map[string]*http.Cookie)
ReplaceMap(g) ==
    /\ Running
    /\ calls[g].pc = "replace"
    /\ cookies' = NoCookies
    /\ calls' = [Overlapped(g) EXCEPT ![g].pc = "remove", ![g].raced = FALSE]
    /\ UNCHANGED <<jar, file, constantVars>>

\* c.httpClient.SetCookies(nil) and os.Remove
LogoutFinish(g) ==
    /\ Running
    /\ calls[g].pc = "remove"
    /\ jar' = SetCookies(jar, EmptyBag)
    /\ file' = NoFile
    /\ calls' = [calls EXCEPT ![g].pc = "done"]
    /\ UNCHANGED <<cookies, constantVars>>

NextConcurrent ==
    \/ ResponseArrives
    \/ LogoutCalled
    \/ \E g \in DOMAIN calls : MapAssignBegin(g)
    \/ \E g \in DOMAIN calls : MapAssignEnd(g)
    \/ \E g \in DOMAIN calls : CollectSlice(g)
    \/ \E g \in DOMAIN calls : SetJar(g)
    \/ \E g \in DOMAIN calls : ReplaceMap(g)
    \/ \E g \in DOMAIN calls : LogoutFinish(g)

SpecConcurrent == InitTransport /\ [][NextConcurrent]_vars

----------------------------------------------------------------------------
(* App: the handlers bound to the GUI.  Each returns the new client state c, *)
(* the new uploadService # nil as up, and the fields of its response.       *)

\* strings.Contains on the words of a message.
Contains(msg, word) == \E i \in 1..Len(msg) : msg[i] = word

\* An App.IsAuthenticated that trusts the local check.
AppIsAuthenticatedLocalOnly(c, t, resp) ==
    [c |-> c, value |-> IsAuthenticated(c.cookies, t), sent |-> FALSE]

\* App.IsAuthenticated: the local check, then the identity lookup.
AppIsAuthenticated(c, t, resp) ==
    LET r == GetCurrentUser(c, resp)
    IN  IF ~IsAuthenticated(c.cookies, t) THEN [c |-> c, value |-> FALSE, sent |-> FALSE]
        ELSE [c |-> r.c, value |-> r.err = <<>>, sent |-> TRUE]

\* startup: the upload service is built when the user is already authenticated.
startup(c, up, t, resp) ==
    LET a == AppIsAuthenticated(c, t, resp)
    IN  [c |-> a.c, up |-> IF a.value THEN TRUE ELSE up, value |-> a.value, sent |-> a.sent]

\* App.Login: resp answers the login request, resp2 the identity lookup that
\* follows a successful login.
AppLogin(c, up, resp, resp2, io) ==
    LET r == Login(c, resp, io)
        u == GetCurrentUser(r.c, resp2)
    IN  IF r.err # <<>>
        THEN [c |-> r.c, up |-> up, success |-> FALSE,
              twoFactor |-> Contains(r.err, "2FA") \/ Contains(r.err, "two-factor"),
              err |-> r.err, wrote |-> r.wrote, written |-> r.c.cookies]
        ELSE [c |-> u.c, up |-> TRUE, success |-> TRUE, twoFactor |-> FALSE,
              err |-> <<>>, wrote |-> r.wrote, written |-> r.c.cookies]

AppVerifyTwoFactor(c, up, isRecoveryCode, resp, resp2, io) ==
    LET r == IF isRecoveryCode THEN VerifyRecoveryCode(c, resp, io)
             ELSE VerifyTOTPCode(c, resp, io)
        u == GetCurrentUser(r.c, resp2)
    IN  IF r.err # <<>>
        THEN [c |-> r.c, up |-> up, success |-> FALSE, twoFactor |-> FALSE,
              err |-> r.err, wrote |-> r.wrote, written |-> r.c.cookies]
        ELSE [c |-> u.c, up |-> TRUE, success |-> TRUE, twoFactor |-> FALSE,
              err |-> <<>>, wrote |-> r.wrote, written |-> r.c.cookies]

\* An App.Logout that keeps the upload service.
AppLogoutKeepsService(c, up, io) ==
    LET r == Logout(c, io)
    IN  [c |-> r.c, up |-> up, success |-> r.err = <<>>, err |-> r.err]

AppLogout(c, up, io) ==
    LET r == Logout(c, io)
    IN  IF r.err # <<>> THEN [c |-> r.c, up |-> up, success |-> FALSE, err |-> r.err]
        ELSE [c |-> r.c, up |-> FALSE, success |-> TRUE, err |-> <<>>]

AppGetCurrentUser(c, resp) ==
    LET r == GetCurrentUser(c, resp)
    IN  [c |-> r.c, success |-> r.err = <<>>, err |-> r.err]

NotAuthenticated == <<"Not", "authenticated.", "Please", "log", "in", "first.">>

\* App.UploadImage: hasPath is req.ImagePath # "".
AppUploadImage(c, up, hasPath, img, noResize, encLen, resp) ==
    LET r == Upload(c, img, noResize, encLen, resp)
    IN  IF ~up THEN [c |-> c, success |-> FALSE, err |-> NotAuthenticated, sent |-> FALSE]
        ELSE IF ~hasPath
        THEN [c |-> c, success |-> FALSE, err |-> <<"No", "image", "selected">>,
              sent |-> FALSE]
        ELSE IF r.err # <<>>
        THEN [c |-> r.c, success |-> FALSE, err |-> <<"Upload", "failed:">> \o r.err,
              sent |-> r.sent]
        ELSE [c |-> r.c, success |-> TRUE, err |-> <<>>, sent |-> TRUE]

----------------------------------------------------------------------------
(* SpecApp: the session client behind the GUI's handlers *)

\* The answers to a request that is sent only when go holds.
If(go, responses) == IF go THEN responses ELSE {NetFail}

\* A new process: NewApp builds the client from the credential file.
NewApp ==
    /\ Idle
    /\ started
    /\ \E io \in OpenIOs(file) :
        LET c == NewClient(file, io)
        IN  /\ Commit(c, FALSE, NoCookies)
            /\ last' = Call("NewApp", <<>>, FALSE, FALSE, NetFail, io, FALSE)
            /\ uploadService' = FALSE
            /\ started' = FALSE
            /\ UNCHANGED now
    /\ UNCHANGED <<dir, transportVars, imageVars>>
    /\ pending' = FALSE
    /\ UNCHANGED <<waits, session, auxVars>>

Startup ==
    /\ Idle
    /\ ~started
    /\ \E resp \in If(IsAuthenticated(cookies, now), UserResponses) :
        LET r == startup(Self, uploadService, now, resp)
        IN  /\ Commit(r.c, FALSE, NoCookies)
            /\ last' = Call("startup", <<>>, r.value, r.sent, resp, NoFault, FALSE)
            /\ uploadService' = r.up
            /\ started' = TRUE
            /\ session' = IF r.value THEN [session EXCEPT !.granted = TRUE] ELSE session
            /\ UNCHANGED now
    /\ UNCHANGED <<dir, transportVars, imageVars>>
    /\ UNCHANGED <<waits, pending, auxVars>>

HandleIsAuthenticated ==
    /\ Idle
    /\ started
    /\ \E resp \in If(IsAuthenticated(cookies, now), UserResponses) :
        LET r == AppIsAuthenticated(Self, now, resp)
        IN  /\ Commit(r.c, FALSE, NoCookies)
            /\ last' = Call("App.IsAuthenticated", <<>>, r.value, r.sent, resp, NoFault, FALSE)
            /\ UNCHANGED <<now, uploadService, started>>
    /\ UNCHANGED <<dir, transportVars, imageVars>>
    /\ UNCHANGED <<waits, pending, session, auxVars>>

HandleLogin ==
    /\ Idle
    /\ started
    /\ \E resp \in LoginResponses :
        \E io \in IOsOf(Login(Self, resp, NoFault)) :
          \E resp2 \in If(Login(Self, resp, io).err = <<>>, UserResponses) :
            LET r == AppLogin(Self, uploadService, resp, resp2, io)
            IN  /\ Commit(r.c, r.wrote, r.written)
                /\ last' = [Call("App.Login", r.err, r.success, TRUE, resp, io, r.wrote)
                               EXCEPT !.twoFactor = r.twoFactor]
                /\ uploadService' = r.up
                /\ pending' = (Login(Self, resp, io).err = Err2FARequired)
                /\ session' = IF r.success THEN [granted |-> TRUE, loggedOut |-> FALSE]
                               ELSE session
                /\ UNCHANGED <<now, started>>
    /\ UNCHANGED <<dir, transportVars, imageVars>>
    /\ UNCHANGED <<waits, auxVars>>

HandleVerifyTwoFactor ==
    /\ Idle
    /\ started
    /\ \E isRecoveryCode \in BOOLEAN, resp \in VerifyResponses :
        \E io \in IOsOf(VerifyTOTPCode(Self, resp, NoFault)) :
          \E resp2 \in If(VerifyTOTPCode(Self, resp, io).err = <<>>, UserResponses) :
            LET r == AppVerifyTwoFactor(Self, uploadService, isRecoveryCode, resp, resp2, io)
            IN  /\ Commit(r.c, r.wrote, r.written)
                /\ last' = Call(IF isRecoveryCode THEN "App.VerifyTwoFactor(recovery)"
                                ELSE "App.VerifyTwoFactor(totp)",
                                r.err, r.success, TRUE, resp, io, r.wrote)
                /\ uploadService' = r.up
                /\ pending' = (pending /\ ~r.success)
                /\ session' = IF r.success THEN [granted |-> TRUE, loggedOut |-> FALSE]
                               ELSE session
                /\ UNCHANGED <<now, started>>
    /\ UNCHANGED <<dir, transportVars, imageVars>>
    /\ UNCHANGED <<waits, auxVars>>

HandleLogout ==
    /\ Idle
    /\ started
    /\ \E io \in OpenIOs(file) :
        LET r == AppLogout(Self, uploadService, io)
        IN  /\ Commit(r.c, FALSE, NoCookies)
            /\ last' = Call("App.Logout", r.err, r.success, FALSE, NetFail, io, FALSE)
            /\ uploadService' = r.up
            /\ session' = IF r.success THEN [granted |-> FALSE, loggedOut |-> TRUE]
                           ELSE session
            /\ UNCHANGED <<now, started>>
    /\ UNCHANGED <<dir, transportVars, imageVars>>
    /\ pending' = FALSE
    /\ UNCHANGED <<waits, auxVars>>

HandleGetCurrentUser ==
    /\ Idle
    /\ started
    /\ \E resp \in UserResponses :
        LET r == AppGetCurrentUser(Self, resp)
        IN  /\ Commit(r.c, FALSE, NoCookies)
            /\ last' = Call("App.GetCurrentUser", r.err, r.success, TRUE, resp, NoFault, FALSE)
            /\ UNCHANGED <<now, uploadService, started>>
    /\ UNCHANGED <<dir, transportVars, imageVars>>
    /\ UNCHANGED <<waits, pending, session, auxVars>>

\* What the server would answer to a first and to a second attempt of an
\* upload.
UploadScripts ==
    { <<r1, r2>> : r1 \in UploadResponses,
                   r2 \in { Http(200, [ZeroBody EXCEPT !.user = TRUE], <<>>),
                            Http(500, [ZeroBody EXCEPT !.error = <<"Unauthorized">>], <<>>) } }

\* The uploader is upload.New(a.authClient.GetHTTPClient()): its requests go
\* through the session client's own http client.
HandleUploadImage ==
    /\ Idle
    /\ started
    /\ \E hasPath \in BOOLEAN :
        \E img \in IF uploadService /\ hasPath THEN Images ELSE {Image(FALSE, 0, FALSE, 0, 0)} :
          \E noResize \in IF img.decodable THEN BOOLEAN ELSE {FALSE} :
            \E encLen \in IF img.decodable THEN EncodedLengths ELSE {MaxImageSize} :
              \E scr \in IF uploadService /\ hasPath
                            /\ prepareImage(img, noResize, encLen).err = <<>>
                         THEN UploadScripts ELSE {<<NetFail>>} :
                LET made == Backoff(AuthTransport, scr, <<>>)
                    resp == Final(made)
                    r == AppUploadImage(Self, uploadService, hasPath, img, noResize, encLen, resp)
                IN  /\ Commit(r.c, FALSE, NoCookies)
                    /\ last' = Call("App.UploadImage", r.err, r.success, r.sent, resp,
                                    NoFault, FALSE)
                    /\ script' = IF r.sent THEN scr ELSE <<>>
                    /\ attempts' = IF r.sent THEN made ELSE <<>>
                    /\ UNCHANGED <<now, uploadService, started>>
    /\ UNCHANGED <<dir, phase, imageVars>>
    /\ UNCHANGED <<waits, pending, session, auxVars>>

NextApp ==
    \/ NewApp
    \/ Startup
    \/ HandleIsAuthenticated
    \/ HandleLogin
    \/ HandleVerifyTwoFactor
    \/ HandleLogout
    \/ HandleGetCurrentUser
    \/ HandleUploadImage
    \/ Tick
    \/ Return

SpecApp == Init /\ [][NextApp]_vars

\* SpecSession: the handlers that make and end a session, and the check of it.
NextSession ==
    \/ Startup
    \/ HandleIsAuthenticated
    \/ HandleLogin
    \/ HandleLogout
    \/ Tick
    \/ Return

SpecSession == Init /\ [][NextSession]_vars

\* SpecGate: the handlers that set and clear the upload service, and the
\* upload, from a first start with no credential file; a restart finds the
\* file the handlers have left.
NextGate ==
    \/ NewApp
    \/ Startup
    \/ HandleLogin
    \/ HandleVerifyTwoFactor
    \/ HandleLogout
    \/ HandleUploadImage
    \/ Return

SpecGate == InitTransport /\ [][NextGate]_vars

----------------------------------------------------------------------------
(* Claims about the session client, checked under Spec *)

\* The server answers with an error: the transport fails, the status is an
\* error status, or the body carries an error field.
ErrorAnswer(resp) == resp.failed \/ resp.status >= 400 \/ resp.body.error # <<>>

\* The body of a 200 answer lists required second-factor methods, at the top
\* level or in the user payload.
ListsTwoFactor(resp) == resp.body.rtfaTop \/ (resp.body.user /\ resp.body.rtfaUser)

\* cs holds every cookie the list sets: for each name the last one set.
Kept(cs, list) ==
    \A i \in 1..Len(list) :
        (\A j \in (i + 1)..Len(list) : list[j].Name # list[i].Name) =>
            list[i].Name \in DOMAIN cs /\ cs[list[i].Name] = list[i]

SetsAuth(list) == \E i \in 1..Len(list) : list[i].Name = "auth"

\* The credential file holds exactly the cookie set cs.
FileHolds(cs) == file.exists /\ file.data.closed /\ DecodeCookies(file.data) = cs

\* C1: whenever the server answers the login request with an error (an error
\* field in the body, an error status such as 401) or the network call fails,
\* Login returns a failure, does not write the credential file, and a session
\* that was unauthenticated stays so (the answer setting no auth cookie).
C1_LoginErrorFails ==
    (last.op = "Login" /\ ErrorAnswer(last.resp)) =>
        /\ last.err # <<>>
        /\ file = last.preFile
        /\ (~last.preAuth /\ ~SetsAuth(last.resp.setCookies)) => ~IsAuthenticated(cookies, now)

\* C2: when the login response reports a user with no pending second factor,
\* Login succeeds (the file system permitting) and on return the credential
\* file holds exactly the in-memory cookie set, which includes every cookie
\* the response set.
C2_LoginPersistsMergedCookies ==
    (last.op = "Login" /\ ~ErrorAnswer(last.resp) /\ last.resp.body.user
        /\ ~ListsTwoFactor(last.resp)) =>
        /\ ~last.fault => last.err = <<>>
        /\ last.err = <<>> => FileHolds(cookies) /\ Kept(cookies, last.resp.setCookies)

C2_Witness ==
    /\ last.op = "Login" /\ ~ErrorAnswer(last.resp) /\ last.resp.body.user
    /\ ~ListsTwoFactor(last.resp)
    /\ last.err = <<>>
    /\ Len(last.resp.setCookies) = 2
    /\ last.preFile.exists /\ last.preFile.data # file.data

Verified(resp) == ~resp.failed /\ resp.status = 200 /\ resp.body.verified

\* C5: VerifyTOTPCode and VerifyRecoveryCode succeed only when the reply
\* confirms verified=true, and then (the file system permitting) they do
\* succeed, with the in-memory cookie set in the credential file; on
\* verified=false, an error status or a network failure they return an error
\* and leave the file untouched.  On the same state and inputs the two end in
\* the same state and fail or succeed together.
C5_VerifyPersistsIffVerified ==
    /\ last.op \in {"VerifyTOTPCode", "VerifyRecoveryCode"} =>
        /\ last.err = <<>> => Verified(last.resp) /\ FileHolds(cookies)
        /\ (Verified(last.resp) /\ ~last.fault) => last.err = <<>>
        /\ ~Verified(last.resp) => last.err # <<>> /\ file = last.preFile
    /\ Idle =>
        \A resp \in VerifyResponses : \A io \in SaveIOs(file) :
            LET t == VerifyTOTPCode(Self, resp, io)
                r == VerifyRecoveryCode(Self, resp, io)
            IN  t.c = r.c /\ t.wrote = r.wrote /\ (t.err = <<>>) = (r.err = <<>>)

C5_Witness ==
    /\ last.op = "VerifyRecoveryCode"
    /\ Verified(last.resp) /\ SetsAuth(last.resp.setCookies)
    /\ last.err = <<>>
    /\ last.preFile # file

\* C6: after Logout IsAuthenticated() is false and the in-memory cookie set
\* is empty; when Logout succeeds the credential file is absent; Logout
\* succeeds when the file was already absent, and whenever removing it does
\* not fail.
C6_LogoutClears ==
    last.op = "Logout" =>
        /\ ~IsAuthenticated(cookies, now)
        /\ cookies = NoCookies
        /\ last.err = <<>> => ~file.exists
        /\ ~last.preFile.exists => last.err = <<>>
        /\ ~last.fault => last.err = <<>>

C6_Witness ==
    /\ last.op = "Logout" /\ last.err = <<>>
    /\ last.preAuth /\ last.preFile.exists

\* C7: after Logout the session client's HTTP transport holds no cookies, so
\* that a later request carries no auth cookie of the ended session.
C7_LogoutEmptiesTransport ==
    last.op = "Logout" =>
        /\ jar = EmptyBag
        /\ \A ck \in BagToSet(jar) : ck.Name # "auth"

\* C8 as stated: IsAuthenticated() is true if and only if an auth cookie is
\* present with a non-empty value and it has no expiry or an expiry strictly
\* in the future.
C8_StrictlyInFuture ==
    last.op = "IsAuthenticated" =>
        (last.value <=>
            /\ "auth" \in DOMAIN cookies
            /\ cookies["auth"].Value # ""
            /\ (cookies["auth"].Expires = 0 \/ cookies["auth"].Expires > now))

\* C8 amended: IsAuthenticated() is true if and only if an auth cookie is
\* present with a non-empty value and it has no expiry or an expiry that is
\* not before the current instant.
C8_NotBeforeNow ==
    last.op = "IsAuthenticated" =>
        (last.value <=>
            /\ "auth" \in DOMAIN cookies
            /\ cookies["auth"].Value # ""
            /\ (cookies["auth"].Expires = 0 \/ cookies["auth"].Expires >= now))

C8_Witness ==
    /\ last.op = "IsAuthenticated" /\ last.value
    /\ "auth" \in DOMAIN cookies /\ cookies["auth"].Expires = now

\* C9: a client constructed on the path of a completed save loads the cookie
\* set that save wrote: the same names, values and expiries.
C9_SaveLoadRoundTrip ==
    savedSet.valid => NewClient(file, NoFault).cookies = savedSet.set

C9_Witness ==
    /\ last.op = "NewClient" /\ ~last.fault
    /\ savedSet.valid /\ cookies = savedSet.set
    /\ "auth" \in DOMAIN cookies /\ cookies["auth"] = Cookie("auth", "t2", 2)

\* C10: after every completed save the credential file has no group or other
\* permission bits, also when it existed before with broader permissions.
C10_OwnerOnlyAfterSave ==
    last.wrote => file.exists /\ file.mode % 64 = 0

C10_Witness ==
    /\ last.wrote
    /\ last.preFile.exists /\ last.preFile.mode % 64 # 0

----------------------------------------------------------------------------
(* Claims about the App, checked under SpecGate *)

\* C4: after App.Login returns the two-factor-required outcome, whatever
\* preceded it, the ready-for-upload flag is not set, so that App.UploadImage
\* is refused as not authenticated.
C4_TwoFactorPendingNotReady ==
    (last.op = "App.Login" /\ last.twoFactor) => ~uploadService

----------------------------------------------------------------------------
(* Claims about the credential store's failures, checked under Spec *)

\* C11: when the session client is constructed on a credential file that
\* exists but cannot be opened or decoded, the constructor reports an error to
\* its caller.
C11_LoadErrorReported ==
    (last.op = "NewClient" /\ last.preFile.exists
        /\ (last.fault \/ ~last.preFile.data.closed)) =>
        last.err # <<>>

\* C11, its other half: a missing file is not an error and gives the empty
\* cookie set.
C11_MissingFileIsEmpty ==
    (last.op = "NewClient" /\ ~last.preFile.exists) =>
        last.err = <<>> /\ cookies = NoCookies

----------------------------------------------------------------------------
(* Claims about the directory of the credential file, checked under SpecConfig *)

\* The login's answer is one after which Login goes on to save.
ReachesSave(resp) == ~ErrorAnswer(resp) /\ ~ListsTwoFactor(resp)

\* C12, as stated: a save that finds the directory of the credential file
\* absent creates it with owner-only access and then writes the file.
C12_SaveCreatesDir ==
    (last.op = "Login" /\ ReachesSave(last.resp) /\ ~last.preDir.exists) =>
        /\ dir.exists /\ dir.mode % 64 = 0
        /\ last.wrote /\ file.exists

\* C12, amended: Load creates the directory when it is absent, without any
\* group or other permission bit (0700 less the umask); a save creates no
\* directory: finding the directory absent it returns an error with the
\* directory still absent and no file written.
C12_LoadCreatesDir ==
    /\ (last.op = "Load" /\ last.err = <<>>) =>
            /\ dir.exists
            /\ ~last.preDir.exists => dir.mode % 64 = 0 /\ dir.mode <= OwnerOnlyDir
            /\ last.preDir.exists => dir = last.preDir
    /\ (last.op = "Login" /\ ReachesSave(last.resp) /\ ~last.preDir.exists) =>
            /\ last.err # <<>> /\ ~last.wrote
            /\ ~dir.exists /\ ~file.exists

C12_Witness ==
    /\ last.op = "Load" /\ last.err = <<>>
    /\ ~last.preDir.exists /\ dir = Dir(OwnerOnlyDir)

C12_WitnessSave ==
    /\ last.op = "Login" /\ ReachesSave(last.resp) /\ ~last.preDir.exists
    /\ last.err # <<>>

----------------------------------------------------------------------------
(* Claims about the resilient transport, checked under SpecTransport *)

\* An outcome after which a request is to be sent again: an error of the
\* attempt, status 429, or a status of 500 and above.
Retryable(r) == r.failed \/ r.status = 429 \/ r.status >= 500

\* C13: an attempt is followed by another exactly when retries remain and it
\* failed or returned 429 or a status >= 500; any other status ends the
\* request.  A 500 followed by a 200 gives one retry and a 200 to the caller,
\* and a 404 gives no retry.
C13_RetryIff ==
    /\ \A i \in 1..Len(attempts) : attempts[i] = script[i]
    /\ \A i \in 1..(Len(attempts) - 1) : Retryable(attempts[i]) /\ i <= maxRetries
    /\ phase = "returned" =>
            /\ attempts # <<>>
            /\ ~(Retryable(Final(attempts)) /\ Len(attempts) <= maxRetries)
    /\ (phase = "returned" /\ ~script[1].failed /\ script[1].status = 500
            /\ ~script[2].failed /\ script[2].status = 200) =>
            Len(attempts) = 2 /\ Final(attempts).status = 200
    /\ (phase = "returned" /\ ~script[1].failed /\ script[1].status = 404) =>
            Len(attempts) = 1

C13_Witness ==
    /\ phase = "returned" /\ Len(attempts) = 2
    /\ ~attempts[1].failed /\ attempts[1].status = 500
    /\ ~attempts[2].failed /\ attempts[2].status = 200

\* C14: whatever the server answers, a request makes at most 1 + maxRetries
\* attempts, and a request in progress returns to its caller.
C14_BoundedAttempts ==
    /\ [](Len(attempts) <= 1 + maxRetries)
    /\ (phase = "sending") ~> (phase = "returned")

C14_Witness ==
    /\ phase = "returned" /\ Len(attempts) = 1 + maxRetries
    /\ Retryable(Final(attempts))

----------------------------------------------------------------------------
(* Claims about uploads, checked under SpecGate *)

\* C15: an upload started by App.UploadImage goes through the retry policy:
\* when the server answers the first attempt with 500 and would answer a
\* second with 200, the upload is sent again and ends in success.
C15_AppUploadRetries ==
    (last.op = "App.UploadImage" /\ last.sent /\ Len(script) = 2
        /\ ~script[1].failed /\ script[1].status = 500
        /\ ~script[2].failed /\ script[2].status = 200) =>
        last.value /\ Len(attempts) = 2

----------------------------------------------------------------------------
(* Claims about Uploader.Upload, checked under SpecUpload *)

\* The last words of msg are the words of text.
EndsWith(msg, text) ==
    /\ Len(msg) >= Len(text)
    /\ SubSeq(msg, Len(msg) - Len(text) + 1, Len(msg)) = text

\* The request got a response, the last one of the call, with status st.
FinalStatus(st) == last.sent /\ ~last.resp.failed /\ last.resp.status = st

\* C16: Upload returns a result and no error exactly when the final response
\* has status 200, and otherwise no result and an error; for a final response
\* with another status the error carries the status code and the body text.
C16_UploadAllOrNothing ==
    last.op = "Upload" =>
        /\ (last.value /\ last.err = <<>>) <=> FinalStatus(200)
        /\ ~FinalStatus(200) => ~last.value /\ last.err # <<>>
        /\ (last.sent /\ ~last.resp.failed /\ last.resp.status # 200) =>
                /\ Contains(last.err, ToString(last.resp.status))
                /\ EndsWith(last.err, last.resp.body.error)

\* Retries exhausted on 500: four attempts, and the error names the status.
C16_Witness ==
    /\ last.op = "Upload" /\ FinalStatus(500) /\ Len(attempts) = 1 + maxRetries
    /\ ~last.value /\ Contains(last.err, "500")

----------------------------------------------------------------------------
(* Claims about the asset pipeline, checked under SpecImage *)

\* prepareImage has returned for source, and with an output.
Done == imageData # NotPrepared
Output == Done /\ imageData.err = <<>>

TooLarge == <<"image", "file", "too", "large">>

\* C17: a missing file fails at the existence check; a file of more than
\* 32 MiB is rejected with no attempt to open or decode it; a file of exactly
\* 32 MiB passes the size check.
C17_SizeBeforeDecode ==
    Done =>
        /\ ~source.img.exists =>
                /\ imageData.steps = <<"stat">>
                /\ imageData.err = <<"failed", "to", "stat", "image", "file">>
        /\ (source.img.exists /\ source.img.size > 32 * 1024 * 1024) =>
                /\ imageData.err = TooLarge
                /\ ~Contains(imageData.steps, "open")
                /\ ~Contains(imageData.steps, "decode")
        /\ (source.img.exists /\ source.img.size = 32 * 1024 * 1024) =>
                /\ imageData.err # TooLarge
                /\ Contains(imageData.steps, "decode")

C17_Witness ==
    /\ Done /\ source.img.exists /\ source.img.decodable
    /\ source.img.size = 32 * 1024 * 1024 + 1
    /\ imageData.err = TooLarge

\* C18, as stated: with noResize false the output is 1920x1080 when the
\* source's width is at least its height, and 1080x1920 when it is less.
C18_SquareIsLandscape ==
    (Output /\ ~source.noResize) =>
        imageData.dims = IF source.img.w >= source.img.h THEN <<1920, 1080>>
                         ELSE <<1080, 1920>>

\* C18, amended: with noResize false the output is 1920x1080 when the
\* source's width is greater than its height, and 1080x1920 when it is not,
\* a square source included.
C18_SquareIsPortrait ==
    (Output /\ ~source.noResize) =>
        imageData.dims = IF source.img.w > source.img.h THEN <<1920, 1080>>
                         ELSE <<1080, 1920>>

C18_Witness ==
    /\ Output /\ ~source.noResize
    /\ source.img.w = source.img.h
    /\ imageData.dims = <<1080, 1920>>

\* C19: with noResize true and a source of at most 2048 on both axes, the
\* output has the source's dimensions, whatever the format of the source.
C19_SmallKeepsDimensions ==
    (Output /\ source.noResize /\ source.img.w <= 2048 /\ source.img.h <= 2048) =>
        imageData.dims = <<source.img.w, source.img.h>>

C19_Witness ==
    /\ Output /\ source.noResize /\ source.format = "gif"
    /\ source.img.w = 2048 /\ source.img.h = 600
    /\ imageData.dims = <<2048, 600>>

\* a * 2048 / b rounded to the nearest integer.
Proportional(a, b) == (2 * a * 2048 + b) \div (2 * b)

AtLeastOne(v) == IF v < 1 THEN 1 ELSE v

\* C20, as stated: with noResize true and a source above 2048 on some axis,
\* the output's longer axis is 2048 and its shorter axis is the rounded
\* proportional value.
C20_ShorterIsRounded ==
    (Output /\ source.noResize /\ (source.img.w > 2048 \/ source.img.h > 2048)) =>
        LET w == source.img.w
            h == source.img.h
        IN  /\ imageData.dims[1] <= 2048 /\ imageData.dims[2] <= 2048
            /\ w > h => imageData.dims = <<2048, Proportional(h, w)>>
            /\ w < h => imageData.dims = <<Proportional(w, h), 2048>>
            /\ w = h => imageData.dims = <<2048, 2048>>

\* C20, amended: the shorter axis is the rounded proportional value, and 1
\* when that value rounds to 0.
C20_ShorterIsRoundedAtLeastOne ==
    (Output /\ source.noResize /\ (source.img.w > 2048 \/ source.img.h > 2048)) =>
        LET w == source.img.w
            h == source.img.h
        IN  /\ imageData.dims[1] <= 2048 /\ imageData.dims[2] <= 2048
            /\ w > h => imageData.dims = <<2048, AtLeastOne(Proportional(h, w))>>
            /\ w < h => imageData.dims = <<AtLeastOne(Proportional(w, h)), 2048>>
            /\ w = h => imageData.dims = <<2048, 2048>>
            /\ (w = 3000 /\ h = 4000) => imageData.dims = <<1536, 2048>>

C20_Witness ==
    /\ Output /\ source.noResize
    /\ source.img.w = 3000 /\ source.img.h = 4000
    /\ imageData.dims = <<1536, 2048>>

----------------------------------------------------------------------------
(* Claims about the request of an upload, checked under SpecSend *)

\* The bodies to look at: the form once built, and what each attempt sent.
Bodies ==
    (IF form.parts # <<>> THEN {form.parts} ELSE {}) \cup
    { trace[i].body : i \in { j \in 1..Len(trace) : trace[j].ev = "attempt" } }

Has(b, n) == \E i \in 1..Len(b) : b[i].name = n

ValueOf(b, n) == b[CHOOSE i \in 1..Len(b) : b[i].name = n].value

\* C21: the body always has the image part, of type image/png, and the
\* timestamp field, and it has the note, worldId and worldName fields exactly
\* when the option is not the empty string.
C21_FormFields ==
    \A b \in Bodies :
        /\ \E i \in 1..Len(b) : b[i].name = "image" /\ b[i].contentType = "image/png"
        /\ Has(b, "timestamp")
        /\ Has(b, "note") <=> form.note # ""
        /\ Has(b, "worldId") <=> form.worldId # ""
        /\ Has(b, "worldName") <=> form.worldName # ""
        /\ Has(b, "note") => ValueOf(b, "note") = form.note
        /\ Has(b, "worldId") => ValueOf(b, "worldId") = form.worldId
        /\ Has(b, "worldName") => ValueOf(b, "worldName") = form.worldName

C21_Witness ==
    /\ form.note # "" /\ form.worldId = "" /\ form.worldName # ""
    /\ \E i \in 1..Len(trace) :
        /\ trace[i].ev = "attempt"
        /\ Has(trace[i].body, "note") /\ ~Has(trace[i].body, "worldId")

\* C30: the timestamp is made after the pipeline has finished and before the
\* first attempt, and every attempt of the call, retries included, sends the
\* same body, with the timestamp of that moment.
C30_TimestampOnceBodyIdentical ==
    /\ \A i \in 1..Len(trace) :
        trace[i].ev = "timestamp" =>
            /\ \E k \in 1..(i - 1) : trace[k].ev = "prepared"
            /\ \A k \in 1..(i - 1) : trace[k].ev # "attempt"
    /\ \A i \in 1..Len(trace) :
        trace[i].ev = "attempt" =>
            /\ \E j \in 1..(i - 1) :
                /\ trace[j].ev = "timestamp"
                /\ ValueOf(trace[i].body, "timestamp") = FormatTime(trace[j].at)
            /\ \A k \in 1..Len(trace) :
                trace[k].ev = "attempt" => trace[k].body = trace[i].body

\* A retry sent at a later time than the timestamp was made.
C30_Witness ==
    \E i, j, k \in 1..Len(trace) :
        /\ trace[i].ev = "timestamp" /\ trace[j].ev = "attempt" /\ trace[k].ev = "attempt"
        /\ j < k /\ trace[i].at < trace[k].at
        /\ trace[1].ev = "prepared" /\ trace[1].at < trace[i].at

----------------------------------------------------------------------------
(* Claims about the login header, checked under SpecHeader *)

\* The value of a base64 character.
SextetOf(ch) == (CHOOSE i \in 1..64 : Base64Chars[i] = ch) - 1

\* The text that a base64 text of whole groups stands for.
RECURSIVE Base64Decode(_)
Base64Decode(e) ==
    IF e = <<>> THEN <<>>
    ELSE LET pad == IF e[4] # "=" THEN 0 ELSE IF e[3] # "=" THEN 1 ELSE 2
             n == SextetOf(e[1]) * 262144 + SextetOf(e[2]) * 4096
                    + (IF pad < 2 THEN SextetOf(e[3]) * 64 ELSE 0)
                    + (IF pad < 1 THEN SextetOf(e[4]) ELSE 0)
             bytes == <<n \div 65536, (n \div 256) % 256, n % 256>>
         IN  [i \in 1..(3 - pad) |-> Char(bytes[i])] \o Base64Decode(SubSeq(e, 5, Len(e)))

HexValue(ch) == (CHOOSE i \in 1..16 : HexDigits[i] = ch) - 1

\* The text of which t is the escape: "+" stands for the space and %XX for
\* the character of that byte.
RECURSIVE Unescape(_)
Unescape(t) ==
    IF t = <<>> THEN <<>>
    ELSE IF t[1] = "%"
    THEN <<Char(16 * HexValue(t[2]) + HexValue(t[3]))>> \o Unescape(SubSeq(t, 4, Len(t)))
    ELSE IF t[1] = "+" THEN <<" ">> \o Unescape(Tail(t))
    ELSE <<t[1]>> \o Unescape(Tail(t))

Colons(t) == { i \in 1..Len(t) : t[i] = ":" }

\* Credentials that collide when they are joined without escaping.
Rivals == { <<u, pw>> : u \in {<<>>, <<"a">>, <<":">>}, pw \in {<<>>, <<"a">>, <<":">>} }

\* C22: the header is "Basic " and the base64 of escape(username), a colon
\* and escape(password): the decoded credential has one colon, the text
\* before it unescapes to the username and the text after it to the password,
\* so that no other pair of credentials has the same header.
C22_HeaderDeterminesCredentials ==
    login.header # <<>> =>
        LET cred == Base64Decode(SubSeq(login.header, 7, Len(login.header)))
            at == CHOOSE i \in Colons(cred) : TRUE
        IN  /\ SubSeq(login.header, 1, 6) = BasicPrefix
            /\ Cardinality(Colons(cred)) = 1
            /\ Unescape(SubSeq(cred, 1, at - 1)) = login.username
            /\ Unescape(SubSeq(cred, at + 1, Len(cred))) = login.password
            /\ \A r \in Rivals :
                r # <<login.username, login.password>> =>
                    createAuthHeader(r[1], r[2]) # login.header

C22_Witness ==
    /\ login.header # <<>>
    /\ login.username = <<"a", ":">> /\ login.password = <<"%", " ">>

----------------------------------------------------------------------------
(* Claims about concurrent calls, checked under SpecConcurrent *)

SetsName(l, n) == \E i \in 1..Len(l) : l[i].Name = n

LastOf(l, n) ==
    l[CHOOSE i \in 1..Len(l) : l[i].Name = n /\ \A j \in (i + 1)..Len(l) : l[j].Name # n]

BothMerged ==
    /\ Len(calls) = 2
    /\ \A g \in DOMAIN calls : calls[g].op = "saveCookies" /\ calls[g].pc \in {"set", "done"}

C23_OneWriter == Cardinality(Assigning) <= 1

C23_NoLostUpdate ==
    BothMerged =>
        \A g \in DOMAIN calls, n \in {"auth", "sid"} :
            SetsName(calls[g].list, n) =>
                /\ n \in DOMAIN cookies
                /\ \E h \in DOMAIN calls :
                    SetsName(calls[h].list, n) /\ cookies[n] = LastOf(calls[h].list, n)

\* C23: read-modify-write of the cookie set is done under mutual exclusion:
\* no two calls are inside a write of the cookie map at the same time, the
\* runtime stops no call, and when two responses have been merged the map
\* holds, for every name they set, the cookie that one of them set last.
C23_MutualExclusion ==
    /\ C23_OneWriter
    /\ Running
    /\ C23_NoLostUpdate

----------------------------------------------------------------------------
(* Claims about the cookie jar and the file after a response, checked under Spec *)

RequestOps == {"Login", "VerifyTOTPCode", "VerifyRecoveryCode", "GetCurrentUser"}

\* This step is a call of the client whose request got a response.
ProcessesResponse == last.op = "none" /\ last'.op \in RequestOps /\ ~last'.resp.failed

\* cs is prev overridden name by name with the cookies of the list.
Overridden(prev, list, cs) ==
    /\ DOMAIN cs = DOMAIN prev \cup { list[i].Name : i \in 1..Len(list) }
    /\ \A n \in DOMAIN cs : cs[n] = IF SetsName(list, n) THEN LastOf(list, n) ELSE prev[n]

\* The jar j holds the cookies of cs and nothing else, each once.
HoldsExactly(j, cs) ==
    /\ BagToSet(j) = { cs[n] : n \in DOMAIN cs }
    /\ \A ck \in BagToSet(j) : CopiesIn(ck, j) = 1

\* C24: after every response processed by the client, the cookie set is the
\* previous set overridden name by name with the response's cookies, and the
\* jar of the transport holds exactly that set, one entry per name.
C24_JarHoldsTheSet ==
    [][ProcessesResponse =>
          /\ Overridden(cookies, last'.resp.setCookies, cookies')
          /\ HoldsExactly(jar', cookies')]_vars

C24_SetOverridden ==
    [][ProcessesResponse => Overridden(cookies, last'.resp.setCookies, cookies')]_vars

\* The file gives a client constructed later the auth cookie of cs.
FileGivesAuth(cs) ==
    /\ file.exists /\ file.data.closed
    /\ "auth" \in DOMAIN DecodeCookies(file.data)
    /\ DecodeCookies(file.data)["auth"].Value = cs["auth"].Value
    /\ NewClient(file, NoFault).cookies["auth"].Value = cs["auth"].Value

\* C25: when the response of GetCurrentUser sets the auth cookie of an
\* authenticated session, the credential file ends up holding the value the
\* session now has, so that a client constructed later loads it.
C25_FileFollowsRotation ==
    (/\ last.op = "GetCurrentUser" /\ last.preAuth
     /\ ~last.resp.failed /\ SetsAuth(last.resp.setCookies))
        => FileGivesAuth(cookies)

----------------------------------------------------------------------------
(* Claims about the session as the GUI reports it, checked under SpecSession *)

\* C26: App.IsAuthenticated returns true only if the local cookie check
\* passed and the identity lookup was then answered with status 200 and no
\* error; a lookup that fails or is answered with another status gives
\* false, and when the local check fails no request is made.
C26_ConfirmedByLookup ==
    last.op = "App.IsAuthenticated" =>
        /\ last.value =>
            last.preAuth /\ last.sent /\ ~last.resp.failed /\ last.resp.status = 200
        /\ (last.sent /\ (last.resp.failed \/ last.resp.status # 200)) => ~last.value
        /\ ~last.preAuth => (~last.sent /\ ~last.value)

C26_Witness ==
    /\ last.op = "App.IsAuthenticated"
    /\ last.preAuth /\ last.sent /\ last.resp.status = 200 /\ last.value

C26_WitnessRejected ==
    /\ last.op = "App.IsAuthenticated"
    /\ last.preAuth /\ last.sent /\ last.resp.status = 401 /\ ~last.value

\* The identity endpoint answers 200 and lists the required methods.
LookupListsMethods(resp) == ~resp.failed /\ resp.status = 200 /\ ListsTwoFactor(resp)

\* C27: while the login was answered with required second-factor methods and
\* no verification has succeeded, App.IsAuthenticated returns false, the
\* identity endpoint answering 200 with the list of required methods.
C27_PendingNotUsable ==
    (/\ last.op = "App.IsAuthenticated" /\ pending
     /\ last.sent => LookupListsMethods(last.resp))
        => ~last.value

\* The login response was parsed (a 2xx status) and listed required methods.
ParsedListsMethods(resp) ==
    ~resp.failed /\ resp.status >= 200 /\ resp.status <= 299 /\ ListsTwoFactor(resp)

\* C28: App.Login reports RequiresTwoFactor if and only if the parsed login
\* response listed required second-factor methods: it reports it for no
\* other answer, whatever the text of an error, and reports it for every
\* answer that lists methods and carries no error.
C28_TwoFactorFromResponse ==
    last.op = "App.Login" =>
        /\ last.twoFactor => ParsedListsMethods(last.resp)
        /\ (ParsedListsMethods(last.resp) /\ last.resp.body.error = <<>>) => last.twoFactor

----------------------------------------------------------------------------
(* Claims about the waits between attempts, checked under SpecTransport *)

\* C29: within one call through the resilient transport there is one wait
\* before every retry, the waits do not decrease from one retry to the next,
\* and every wait is at least 1 s and at most 10 s.
C29_WaitsMonotoneBounded ==
    /\ attempts # <<>> => Len(waits) = Len(attempts) - 1
    /\ \A i \in 1..Len(waits) : waits[i] >= 1000 /\ waits[i] <= 10000
    /\ \A i \in 1..(Len(waits) - 1) : waits[i] <= waits[i + 1]

C29_Witness ==
    /\ phase = "returned"
    /\ Len(waits) = 3
    /\ waits[1] < waits[2] /\ waits[2] < waits[3]

----------------------------------------------------------------------------
(* Claims about a failed pipeline and the payload, checked under SpecUpload *)

\* The calls prepareImage made on the source, each stage at most once.
EachStageOnce(steps) ==
    \A i \in 1..Len(steps), j \in 1..Len(steps) : steps[i] = steps[j] => i = j

----------------------------------------------------------------------------
(* Claims about the image payload, checked under SpecSend *)

\* The image parts of the bodies sent by the attempts of the call.
SentImages ==
    { ValueOf(trace[i].body, "image") : i \in { j \in 1..Len(trace) : trace[j].ev = "attempt" } }

\* C32: every image payload an attempt sends is the PNG output of the
\* pipeline and at most 32 MiB (33554432 bytes) long, whatever the format of
\* the source and the noResize flag; when the encoded output is longer,
\* nothing is sent.
C32_PayloadIsBoundedPng ==
    /\ \A pl \in SentImages :
        /\ pl.format = "png" /\ pl.len <= 33554432
        /\ pl.len = source.encLen /\ pl.dims = imageData.dims
    /\ source.encLen > 33554432 => SentImages = {}

C32_Witness ==
    /\ source.format = "jpeg" /\ source.noResize
    /\ \E pl \in SentImages : pl.len = 33554432

----------------------------------------------------------------------------
(* Claims about when the file is written, checked under Spec *)

\* C33: Login, VerifyTOTPCode and VerifyRecoveryCode touch the credential
\* file only when their request has returned with a response, and what a
\* completed write holds is the cookie set with the response's cookies
\* merged in; GetCurrentUser and IsAuthenticated leave the file as it was.
C33_WriteAfterCallReturns ==
    /\ last.op \in {"Login", "VerifyTOTPCode", "VerifyRecoveryCode"} =>
        /\ (file # last.preFile \/ last.wrote) => (last.sent /\ ~last.resp.failed)
        /\ last.wrote => (FileHolds(cookies) /\ Kept(cookies, last.resp.setCookies))
    /\ last.op \in {"GetCurrentUser", "IsAuthenticated"} =>
        (file = last.preFile /\ ~last.wrote)

C33_Witness ==
    /\ last.op = "VerifyTOTPCode" /\ last.wrote
    /\ last.resp.setCookies = <<Cookie("auth", "t2", 2)>>
    /\ last.preFile.exists /\ file.data # last.preFile.data

----------------------------------------------------------------------------
(* Claims about the steps of a save, checked under SpecSave *)

Saving == last.op = "saveCookiesToFile"

HoldsCookieData(f) == f.exists /\ f.data.members # {}

\* The permission bits of group and others are the low six bits of the mode.
GroupOrOtherBits(f) == f.mode % 64 # 0

\* os.Create of the save has opened the file.
Opened == last.err # <<"open:", "permission", "denied">>

C34_WitnessChmodFails ==
    /\ Saving /\ phase = "returned"
    /\ last.err = <<"chmod:", "operation", "not", "permitted">>
    /\ GroupOrOtherBits(file)

\* A later load decodes the file: it is absent or a complete JSON object.
Loadable(f) == ~f.exists \/ f.data.closed

\* C35: when a save has returned, with success or with an error, the file
\* is not a partial or truncated one: it holds the complete new cookie set or
\* what was persisted before the save, and a later load decodes it.
C35_NoPartialFile ==
    (Saving /\ phase = "returned" /\ Loadable(last.preFile)) =>
        /\ (file.exists /\ file.data = EncodeCookies(cookies)) \/ file.data = last.preFile.data
        /\ Loadable(file)
        /\ NewClient(file, NoFault).cookies \in {cookies, NewClient(last.preFile, NoFault).cookies}

----------------------------------------------------------------------------
(* Claims about the requests of the session client, checked under SpecOnce *)

\* C36: a call of Login, VerifyTOTPCode, VerifyRecoveryCode or GetCurrentUser
\* sends one request, whatever the response or the error: the call returns
\* on the first answer and the answer ready for a second attempt is not
\* asked for.
C36_OneRequestPerCall ==
    last.op \in {"Login", "VerifyTOTPCode", "VerifyRecoveryCode", "GetCurrentUser"} =>
        /\ Len(attempts) = 1
        /\ attempts[1] = script[1] /\ last.resp = script[1]

C36_Witness ==
    /\ last.op = "Login" /\ last.err # <<>>
    /\ script[1].failed /\ ~script[2].failed
    /\ Len(attempts) = 1

-----------------------------------------------------------------------------
(* C37 *)

\* C37: once built, the resilient client keeps the base address, cookies and
\* user agent it copied: neither a response the session client processes nor
\* a response the resilient client receives changes them, and a response the
\* resilient client receives leaves the session client's cookie map, its
\* configured cookies and the credential file as they were.
C37_SnapshotStable ==
    [][ /\ (resilient.built => resilient' = resilient)
        /\ (last'.op = "resilient" /\ last.op # "resilient"
               => cookies' = cookies /\ jar' = jar /\ file' = file) ]_vars

\* The session client has processed a response since the build, and the
\* resilient client has received one that sets cookies.
C37_Witness ==
    /\ resilient.built
    /\ resilient.cookies # jar
    /\ resilient.cookies # EmptyBag
    /\ last.op = "resilient"
    /\ last.resp.setCookies # <<>>

-----------------------------------------------------------------------------
(* C38 *)

\* C38: an App.UploadImage called while the last successful logout has not
\* been followed by a successful App.Login or App.VerifyTwoFactor is refused
\* as not authenticated and sends no request; and an App.UploadImage that
\* sends a request was preceded by a successful Login, VerifyTwoFactor or
\* startup check with no successful Logout since.
C38_UploadGatedBySession ==
    last.op = "App.UploadImage" =>
        /\ (session.loggedOut => ~last.sent /\ last.err = NotAuthenticated /\ ~last.value)
        /\ (last.sent => session.granted /\ ~session.loggedOut)

\* An upload refused after a logout that followed a granted session.
C38_Witness ==
    /\ last.op = "App.UploadImage"
    /\ session.loggedOut
    /\ last.err = NotAuthenticated
    /\ file = NoFile

\* An upload that sent its request in a granted session.
C38_WitnessSent ==
    /\ last.op = "App.UploadImage"
    /\ last.sent
    /\ session.granted

====
